---- MODULE Spec2Model ----
(***************************************************************************)
(* The match / record-linkage engine of pkg/match and the output assembly  *)
(* of pkg/match/entities and pkg/match/configs.                            *)
(*                                                                         *)
(* One run for one logical type: the tiers of the active rule list are     *)
(* processed one per step by the loop of RunIndexRuleAll, then the payload *)
(* is assembled by genOutputPayload (entities or configs flavour).         *)
(***************************************************************************)
EXTENDS Integers, Sequences, FiniteSets, TLC

\* Bounds of the model: number of source records and of target records.
NSrc == 2
NTgt == 3

SrcIdx == 0 .. (NSrc - 1)
TgtIdx == 0 .. (NTgt - 1)

\* The three key-extraction functions (rules) of the modelled rule set.
RuleIds == {1, 2, 3}

\* External identifiers of the records.  A record container is sorted by
\* its identifier, so the identifier is strictly increasing in the index.
SrcId(i) == 100 + i
TgtId(j) == 200 + j
SrcIds == {SrcId(i) : i \in SrcIdx}
TgtIds == {TgtId(j) : j \in TgtIdx}

VARIABLES
    rawSource,          \* Source.RawMatchList: index -> key per rule (0: no key)
    rawTarget,          \* Target.RawMatchList: index -> key per rule
    firstSeenTms,       \* target index -> "firstSeenTms" attribute
    baseRuleList,       \* IndexRuleMapGenerator.baseRuleList
    selfMatch,          \* IndexRuleMapGenerator.SelfMatch
    prevMatches,        \* Matches of the previous run's output (source id -> target id)
    pc,                 \* "tiers" | "assemble" | "done"
    tierI,              \* position of the loop of RunIndexRuleAll in ruleTypes
    remSource,          \* Source.RemainingMatch
    remTarget,          \* Target.RemainingMatch
    curSource,          \* Source.CurrentRemainingMatch
    curTarget,          \* Target.CurrentRemainingMatch
    remainingResults,   \* remainingResultsPtr.CompareResults
    matchedEntities,    \* matchedEntities map of RunIndexRuleAll
    uniqueMatchEntities,\* uniqueMatchEntities of the last loop iteration
    maxMatchValue,      \* maxMatchValue of the last loop iteration
    lastRuleType,       \* indexRuleType of the last loop iteration
    errorLog,           \* log.Error calls made so far
    flavour,            \* "none" | "entities" | "configs": which genOutputPayload ran
    output,             \* the MatchOutputType payload
    activeList,         \* the slice returned by genActiveList / genSortedActiveList
    faults,             \* MatchConfigs: configs type -> the call that fails for it
    workers,            \* MatchConfigs: configs type -> position of its goroutine
    errs,               \* MatchConfigs: the shared error list
    stats,              \* MatchConfigs: the shared statistics lines (after the header)
    configsSourceCount, \* MatchConfigs: shared counter
    configsTargetCount, \* MatchConfigs: shared counter
    waitGroup,          \* MatchConfigs: counter of the sync.WaitGroup
    fsFiles,            \* files of the output directory
    callResult,         \* what the top-level call returned
    matchParameters,    \* match.MatchParameters of the entities writer
    prevFs,             \* the previous result of a type on the file system
    sortedConfigs,      \* DeployConfigs: the configs to deploy
    deployOptions,      \* DeployConfigs: continueOnError and dryRun
    deployI,            \* DeployConfigs: position of the loop in sortedConfigs
    deployErrors,       \* DeployConfigs: the errors slice
    entityMap,          \* DeployConfigs: the resolved entities
    attempted,          \* DeployConfigs: configs handed to deploySetting / deployConfig
    dlEnv,              \* DownloadAll: what the client and the filters answer per API
    apiPc,              \* DownloadAll: API -> position of its goroutine
    cfgPc,              \* downloadConfigsOfAPI: API, value -> position of its goroutine
    apiWg,              \* downloadConfigsOfAPI: API -> counter of its WaitGroup
    dlWg,               \* DownloadAll: counter of its WaitGroup
    apiResults,         \* downloadConfigsOfAPI: API -> its results slice
    dlResults,          \* DownloadAll: the results map
    ruleRuns,           \* rule loop: what the helpers of runIndexRule return per rule
    ruleI               \* rule loop: position of the loop over IndexRules

vars == <<rawSource, rawTarget, firstSeenTms, baseRuleList, selfMatch, prevMatches,
          pc, tierI, remSource, remTarget, curSource, curTarget, remainingResults,
          matchedEntities, uniqueMatchEntities, maxMatchValue, lastRuleType,
          errorLog, flavour, output, activeList, faults, workers, errs, stats,
          configsSourceCount, configsTargetCount, waitGroup, fsFiles, callResult,
          matchParameters, prevFs, sortedConfigs, deployOptions, deployI,
          deployErrors, entityMap, attempted, dlEnv, apiPc, cfgPc, apiWg, dlWg,
          apiResults, dlResults, ruleRuns, ruleI>>

\* The state of the match engine between its rule list and its payload, and
\* the state of the components around it.
engine == <<rawSource, rawTarget, firstSeenTms, prevMatches, tierI, remSource,
            remTarget, curSource, curTarget, remainingResults, matchedEntities,
            uniqueMatchEntities, maxMatchValue, lastRuleType, errorLog, flavour,
            output, ruleRuns, ruleI>>

matchConfigs == <<faults, workers, errs, stats, configsSourceCount,
                  configsTargetCount, waitGroup, fsFiles>>

prevVars == <<matchParameters, prevFs>>

deployVars == <<sortedConfigs, deployOptions, deployI, deployErrors, entityMap, attempted>>

downloadVars == <<dlEnv, apiPc, cfgPc, apiWg, dlWg, apiResults, dlResults>>

components == <<activeList, matchConfigs, callResult, prevVars, deployVars, downloadVars>>

\* What the actions of one component leave alone outside of it.
outsideRules == <<baseRuleList, selfMatch, engine, matchConfigs, callResult, prevVars,
                  deployVars, downloadVars>>

outsideMatchConfigs == <<baseRuleList, selfMatch, engine, activeList, prevVars, deployVars,
                         downloadVars>>

outsidePrev == <<baseRuleList, selfMatch, engine, activeList, matchConfigs, deployVars,
                 downloadVars>>

outsideDeploy == <<baseRuleList, selfMatch, engine, activeList, matchConfigs, prevVars,
                   downloadVars>>

outsideDownload == <<baseRuleList, selfMatch, engine, activeList, matchConfigs, prevVars,
                     deployVars>>

ruleLoop == <<ruleRuns, ruleI>>

inputs == <<rawSource, rawTarget, firstSeenTms, baseRuleList, selfMatch, prevMatches>>

-----------------------------------------------------------------------------
(* Generic helpers on sequences and finite maps *)

Range(s) == {s[k] : k \in DOMAIN s}

EmptyMap == [x \in {} |-> 0]

MapPut(m, k, v) == [x \in (DOMAIN m) \cup {k} |-> IF x = k THEN v ELSE m[x]]

\* All orders in which the elements of a finite set can be visited
\* (the iteration order of a Go map is unspecified).
Orders(S) == {o \in [1 .. Cardinality(S) -> S] : \A a \in S : \E k \in DOMAIN o : o[k] = a}

CompareResult(l, r, w) == [LeftId |-> l, RightId |-> r, Weight |-> w]

getLeftId(c) == c.LeftId
getRightId(c) == c.RightId

areIdsEqual(a, b) == a.LeftId = b.LeftId /\ a.RightId = b.RightId

\* The sort.Interface orders of compare_result.go
Less(order, a, b) ==
    CASE order = "ByLeft" -> a.LeftId < b.LeftId
      [] order = "ByRight" -> a.RightId < b.RightId
      [] order = "ByLeftRight" ->
            \/ a.LeftId < b.LeftId
            \/ a.LeftId = b.LeftId /\ a.RightId < b.RightId
      [] order = "ByTopMatch" ->
            \/ a.LeftId < b.LeftId
            \/ a.LeftId = b.LeftId /\ a.Weight > b.Weight
            \/ a.LeftId = b.LeftId /\ a.Weight = b.Weight /\ a.RightId < b.RightId
      [] order = "ByWeightTypeValue" -> b.WeightValue < a.WeightValue

compareCompareResults(a, b) ==
    IF Less("ByLeftRight", a, b) THEN -1
    ELSE IF Less("ByLeftRight", b, a) THEN 1 ELSE 0

\* sort.Sort on a short slice is an insertion sort: each element moves left
\* while it is less than its predecessor.
RECURSIVE InsertSorted(_, _, _)
InsertSorted(order, s, x) ==
    IF s = <<>> THEN <<x>>
    ELSE IF Less(order, x, s[Len(s)])
         THEN Append(InsertSorted(order, SubSeq(s, 1, Len(s) - 1), x), s[Len(s)])
         ELSE Append(s, x)

RECURSIVE SortBy(_, _)
SortBy(order, s) ==
    IF s = <<>> THEN <<>>
    ELSE InsertSorted(order, SortBy(order, SubSeq(s, 1, Len(s) - 1)), s[Len(s)])

\* sort.Sort switches to insertion sort at this length (maxInsertion of the
\* pattern-defeating quicksort of the go 1.20 toolchain the build uses).
maxInsertion == 12

Swap(s, i, j) == [s EXCEPT ![i] = s[j], ![j] = s[i]]

\* order2 and median of the sort package: the position of the median of the
\* elements at a, b and c, with the number of inversions seen on the way.
order2(order, s, a, b, swaps) ==
    IF Less(order, s[b], s[a]) THEN [a |-> b, b |-> a, swaps |-> swaps + 1]
    ELSE [a |-> a, b |-> b, swaps |-> swaps]

medianLast(order, s, ab, bc) ==
    order2(order, s, ab.a, bc.a, bc.swaps).b

medianSecond(order, s, ab, c) ==
    medianLast(order, s, ab, order2(order, s, ab.b, c, ab.swaps))

median(order, s, a, b, c) ==
    medianSecond(order, s, order2(order, s, a, b, 0), c)

\* choosePivot on a slice shorter than shortestNinther (50): the median of
\* the elements at the quarters of the slice.
choosePivot(order, s) ==
    median(order, s, (Len(s) \div 4) + 1, 2 * (Len(s) \div 4) + 1, 3 * (Len(s) \div 4) + 1)

\* partialInsertionSort on a slice shorter than shortestShifting (50) moves
\* nothing: it reports whether the slice is already sorted.
partialInsertionSort(order, s) ==
    \A i \in 2 .. Len(s) : ~Less(order, s[i], s[i - 1])

\* partition: the pivot is swapped to the front, the two scans run towards
\* each other swapping the pairs that are on the wrong side, and the pivot is
\* swapped to its final position mid.
RECURSIVE ScanUp(_, _, _, _)
ScanUp(order, s, i, j) ==
    IF i <= j /\ Less(order, s[i], s[1]) THEN ScanUp(order, s, i + 1, j) ELSE i

RECURSIVE ScanDown(_, _, _, _)
ScanDown(order, s, i, j) ==
    IF i <= j /\ ~Less(order, s[j], s[1]) THEN ScanDown(order, s, i, j - 1) ELSE j

RECURSIVE PartitionLoop(_, _, _, _)
RECURSIVE PartitionScanned(_, _, _, _)
RECURSIVE PartitionStep(_, _, _, _)
PartitionLoop(order, s, i, j) ==
    PartitionScanned(order, s, ScanUp(order, s, i, j), j)

PartitionScanned(order, s, i, j) ==
    PartitionStep(order, s, i, ScanDown(order, s, i, j))

PartitionStep(order, s, i, j) ==
    IF i > j THEN [s |-> Swap(s, j, 1), mid |-> j]
    ELSE PartitionLoop(order, Swap(s, i, j), i + 1, j - 1)

partition(order, s, pivot) ==
    PartitionLoop(order, Swap(s, 1, pivot), 2, Len(s))

\* The two sides of a partition are sorted on their own, the pivot between.
sortParts(order, p) ==
    SortBy(order, SubSeq(p.s, 1, p.mid - 1)) \o <<p.s[p.mid]>>
        \o SortBy(order, SubSeq(p.s, p.mid + 1, Len(p.s)))

\* sort.Sort on a slice of at most maxInsertion + 1 elements: insertion sort
\* up to maxInsertion elements; one element more takes one round of pdqsort
\* (a sorted slice is left alone, any other is partitioned around the pivot
\* and both sides, now short, are insertion sorted).
sortSort(order, s) ==
    IF Len(s) <= maxInsertion THEN SortBy(order, s)
    ELSE IF partialInsertionSort(order, s) THEN s
    ELSE sortParts(order, partition(order, s, choosePivot(order, s)))

RECURSIVE SortInts(_)
SortInts(S) ==
    IF S = {} THEN <<>>
    ELSE LET m == CHOOSE x \in S : \A y \in S : x <= y
         IN <<m>> \o SortInts(S \ {m})

-----------------------------------------------------------------------------
(* IndexCompareResultList: pkg/match/index_compare_rule_list.go *)

newReversedIndexCompareResultList(list) ==
    [k \in 1 .. Len(list) |-> CompareResult(list[k].RightId, list[k].LeftId, list[k].Weight)]

sortTopMatches(list) == SortBy("ByTopMatch", list)

RECURSIVE KeepTopLoop(_, _, _, _)
KeepTopLoop(sorted, k, prevTop, acc) ==
    IF k > Len(sorted) THEN acc
    ELSE LET result == sorted[k] IN
         IF result.LeftId = prevTop.LeftId
         THEN IF result.Weight # prevTop.Weight
              THEN KeepTopLoop(sorted, k + 1, prevTop, acc)
              ELSE KeepTopLoop(sorted, k + 1, prevTop, Append(acc, result))
         ELSE KeepTopLoop(sorted, k + 1, result, Append(acc, result))

keepTopMatchesOnly(list) ==
    IF Len(list) = 0 THEN list
    ELSE LET sorted == sortTopMatches(list)
         IN KeepTopLoop(sorted, 1, sorted[1], <<>>)

\* Returns the reduced list and the reversed reduced list.
reduceBothForwardAndBackward(list) ==
    LET top == keepTopMatchesOnly(list)
        reverseResults == keepTopMatchesOnly(newReversedIndexCompareResultList(top))
    IN [forward |-> newReversedIndexCompareResultList(reverseResults),
        reverse |-> reverseResults]

RECURSIVE UniqueLoop(_, _, _, _, _)
UniqueLoop(sorted, k, prevResult, prevTotalSeen, acc) ==
    LET extracted == IF prevTotalSeen = 1 THEN Append(acc, prevResult) ELSE acc IN
    IF k > Len(sorted) THEN extracted
    ELSE IF sorted[k].LeftId = prevResult.LeftId
         THEN UniqueLoop(sorted, k + 1, prevResult, prevTotalSeen + 1, acc)
         ELSE UniqueLoop(sorted, k + 1, sorted[k], 1, extracted)

getUniqueMatchItems(list) ==
    IF Len(list) = 0 THEN <<>>
    ELSE LET sorted == SortBy("ByLeftRight", list)
         IN UniqueLoop(sorted, 2, sorted[1], 1, <<>>)

\* addRecord of sumMatchWeightValues
addRecord(summed, prevTotal, splitMatch, maxMatch) ==
    IF splitMatch /\ prevTotal.Weight < maxMatch THEN summed
    ELSE Append(summed, prevTotal)

\* Variant of the loop of sumMatchWeightValues that keeps the larger weight
\* of two entries of a pair.
RECURSIVE SumLoopMax(_, _, _, _, _, _)
SumLoopMax(sorted, bI, prevTotal, summed, splitMatch, maxMatch) ==
    IF bI > Len(sorted) THEN addRecord(summed, prevTotal, splitMatch, maxMatch)
    ELSE IF areIdsEqual(sorted[bI - 1], sorted[bI])
         THEN SumLoopMax(sorted, bI + 1,
                         [prevTotal EXCEPT !.Weight = IF sorted[bI].Weight > prevTotal.Weight
                                                      THEN sorted[bI].Weight
                                                      ELSE prevTotal.Weight],
                         summed, splitMatch, maxMatch)
         ELSE SumLoopMax(sorted, bI + 1, sorted[bI],
                         addRecord(summed, prevTotal, splitMatch, maxMatch),
                         splitMatch, maxMatch)

RECURSIVE SumLoop(_, _, _, _, _, _)
SumLoop(sorted, bI, prevTotal, summed, splitMatch, maxMatch) ==
    IF bI > Len(sorted) THEN addRecord(summed, prevTotal, splitMatch, maxMatch)
    ELSE LET a == sorted[bI - 1]
             b == sorted[bI]
         IN IF areIdsEqual(a, b)
            THEN SumLoop(sorted, bI + 1,
                         [prevTotal EXCEPT !.Weight = prevTotal.Weight + b.Weight],
                         summed, splitMatch, maxMatch)
            ELSE SumLoop(sorted, bI + 1, b,
                         addRecord(summed, prevTotal, splitMatch, maxMatch),
                         splitMatch, maxMatch)

sumMatchWeightValues(list, splitMatch, maxMatch) ==
    IF Len(list) <= 1 THEN list
    ELSE LET sorted == SortBy("ByLeftRight", list)
         IN SumLoop(sorted, 2, sorted[1], <<>>, splitMatch, maxMatch)

RECURSIVE getMaxWeight(_)
getMaxWeight(list) ==
    IF list = <<>> THEN 0
    ELSE LET m == getMaxWeight(Tail(list))
         IN IF Head(list).Weight > m THEN Head(list).Weight ELSE m

\* Variant of elevateWeight that leaves the weights as they are.
elevateWeightNone(list, lowerMaxWeight) == list

elevateWeight(list, lowerMaxWeight) ==
    [k \in 1 .. Len(list) |-> [list[k] EXCEPT !.Weight = list[k].Weight + lowerMaxWeight]]

RECURSIVE TrimLoop(_, _, _, _, _)
TrimLoop(cur, uniq, curI, sglI, acc) ==
    IF curI > Len(cur) THEN acc
    ELSE LET diff == IF sglI > Len(uniq) THEN -1
                     ELSE compareCompareResults(cur[curI], uniq[sglI])
         IN IF diff < 0 THEN TrimLoop(cur, uniq, curI + 1, sglI, Append(acc, cur[curI]))
            ELSE IF diff = 0 THEN TrimLoop(cur, uniq, curI + 1, sglI + 1, acc)
            ELSE TrimLoop(cur, uniq, curI, sglI + 1, acc)

\* Variant of trimUniqueMatches that takes nothing out of the list.
trimUniqueMatchesNone(list, uniqueMatchItems) == [list |-> list, bad |-> FALSE]

\* Returns the trimmed list and whether "Did not trim properly" was logged.
\* trimmedList is allocated with newLen zero entries: entries never written
\* stay zero, and a write past newLen is cut (the slice has no room for it).
trimUniqueMatches(list, uniqueMatchItems) ==
    LET newLen == Len(list) - Len(uniqueMatchItems)
        kept == TrimLoop(SortBy("ByLeftRight", list),
                         SortBy("ByLeftRight", uniqueMatchItems), 1, 1, <<>>)
        trmI == Len(kept)
    IN [list |-> [k \in 1 .. (IF newLen < 0 THEN 0 ELSE newLen) |->
                     IF k <= trmI THEN kept[k] ELSE CompareResult(0, 0, 0)],
        bad |-> trmI # newLen]

\* The mutual top matches of the list.  The list is reduced in place to its
\* top matches in both directions; a pair is unique when its source is left
\* with that single target and its target with that single source.  Returns
\* the reduced list and the unique matches.
extractUniqueTopMatch(list) ==
    LET red == reduceBothForwardAndBackward(list)
        uniqueForward == getUniqueMatchItems(red.forward)
        uniqueReverse == getUniqueMatchItems(red.reverse)
    IN [list |-> red.forward,
        unique |-> SelectSeq(uniqueForward,
                        LAMBDA c : \E k \in DOMAIN uniqueReverse :
                                       /\ uniqueReverse[k].LeftId = c.RightId
                                       /\ uniqueReverse[k].RightId = c.LeftId)]

\* Returns the leftover list, the unique matches and the trim error flag.
ProcessMatches(list, splitMatch, maxMatch) ==
    IF Len(list) = 0 THEN [list |-> list, unique |-> <<>>, bad |-> FALSE]
    ELSE LET summed == sumMatchWeightValues(list, splitMatch, maxMatch)
             top == extractUniqueTopMatch(summed)
             trimmed == trimUniqueMatches(top.list, top.unique)
         IN [list |-> trimmed.list, unique |-> top.unique, bad |-> trimmed.bad]

MergeRemainingWeightType(list, remaining) ==
    LET summed == sumMatchWeightValues(list, FALSE, 0)
        lowerMaxWeight == getMaxWeight(summed)
    IN SortBy("ByLeftRight", summed \o elevateWeight(remaining, lowerMaxWeight))

-----------------------------------------------------------------------------
(* Rule model (pkg/match/rules) and IndexRuleMapGenerator: pkg/match/index_rules.go *)

IndexRule(key, weight) ==
    [Key |-> key, WeightValue |-> weight, SelfMatchDisabled |-> FALSE]

IndexRuleType(key, isSeed, splitMatch, weight, indexRules) ==
    [Key |-> key, IsSeed |-> isSeed, SplitMatch |-> splitMatch,
     WeightValue |-> weight, IndexRules |-> indexRules]

NoRuleType == IndexRuleType(-1, FALSE, FALSE, 0, <<>>)

\* genActiveList without the test that drops a tier left with no rule.
genActiveListKeepEmpty(ruleList, isSelfMatch) ==
    [idx \in 1 .. Len(ruleList) |->
        IndexRuleType(idx - 1, ruleList[idx].IsSeed, ruleList[idx].SplitMatch,
                      ruleList[idx].WeightValue,
                      SelectSeq(ruleList[idx].IndexRules,
                                LAMBDA conf : ~(conf.SelfMatchDisabled /\ isSelfMatch)))]

genActiveList(ruleList, isSelfMatch) ==
    LET ruleType(idx) ==
            IndexRuleType(idx - 1, ruleList[idx].IsSeed, ruleList[idx].SplitMatch,
                          ruleList[idx].WeightValue,
                          SelectSeq(ruleList[idx].IndexRules,
                                    LAMBDA conf : ~(conf.SelfMatchDisabled /\ isSelfMatch)))
        all == [idx \in 1 .. Len(ruleList) |-> ruleType(idx)]
    IN SelectSeq(all, LAMBDA t : Len(t.IndexRules) >= 1)

genSortedActiveList(ruleList, isSelfMatch) ==
    sortSort("ByWeightTypeValue", genActiveList(ruleList, isSelfMatch))

\* The sorted index of one rule over the current remaining records of one
\* side: one entry per extracted key, with the records that have that key.
genSortedItemsIndex(indexRule, raw, current) ==
    LET keys == {raw[i][indexRule.Key] : i \in Range(current)} \ {0}
        sortedKeys == SortInts(keys)
    IN [k \in 1 .. Len(sortedKeys) |->
           [indexValue |-> sortedKeys[k],
            matchedIds |-> SortInts({i \in Range(current) :
                                        raw[i][indexRule.Key] = sortedKeys[k]})]]

\* All cross pairs of two index entries with the same key.
crossPairs(sourceIds, targetIds, weight) ==
    [k \in 1 .. (Len(sourceIds) * Len(targetIds)) |->
        CompareResult(sourceIds[((k - 1) \div Len(targetIds)) + 1],
                      targetIds[((k - 1) % Len(targetIds)) + 1], weight)]

RECURSIVE CompareLoop(_, _, _, _, _)
CompareLoop(indexSource, indexTarget, srcI, tgtI, weight) ==
    IF srcI > Len(indexSource) \/ tgtI > Len(indexTarget) THEN <<>>
    ELSE IF indexSource[srcI].indexValue < indexTarget[tgtI].indexValue
         THEN CompareLoop(indexSource, indexTarget, srcI + 1, tgtI, weight)
    ELSE IF indexSource[srcI].indexValue > indexTarget[tgtI].indexValue
         THEN CompareLoop(indexSource, indexTarget, srcI, tgtI + 1, weight)
    ELSE crossPairs(indexSource[srcI].matchedIds, indexTarget[tgtI].matchedIds, weight)
            \o CompareLoop(indexSource, indexTarget, srcI + 1, tgtI + 1, weight)

\* The equi-join of the two sorted indexes on the rule key.  No rule of the
\* modelled rule set needs post-processing.
compareIndexes(indexSource, indexTarget, indexRule) ==
    [results |-> CompareLoop(indexSource, indexTarget, 1, 1, indexRule.WeightValue),
     needsPostProcessing |-> FALSE]

\* Variant of countsTowardsMax that does not look at needsPostProcessing.
countsTowardsMaxAnyway(needsPostProcessing, sortedIndexSource, sortedIndexTarget) ==
    Len(sortedIndexSource) > 0 \/ Len(sortedIndexTarget) > 0

\* The value runIndexRule returns, from what compareIndexes answered and the
\* two sorted indexes.
countsTowardsMax(needsPostProcessing, sortedIndexSource, sortedIndexTarget) ==
    IF needsPostProcessing THEN FALSE
    ELSE Len(sortedIndexSource) > 0 \/ Len(sortedIndexTarget) > 0

\* Returns the results added to the result list and countsTowardsMax.
runIndexRule(indexRule, rawS, rawT, curS, curT) ==
    LET sortedIndexSource == genSortedItemsIndex(indexRule, rawS, curS)
        sortedIndexTarget == genSortedItemsIndex(indexRule, rawT, curT)
        compared == compareIndexes(sortedIndexSource, sortedIndexTarget, indexRule)
    IN [results |-> compared.results,
        countsTowardsMax |->
            countsTowardsMax(compared.needsPostProcessing, sortedIndexSource,
                             sortedIndexTarget)]

RECURSIVE KeepLoop(_, _, _, _)
KeepLoop(matched, uniqueMatch, k, found) ==
    IF k > Len(uniqueMatch) THEN [matched |-> matched, found |-> found]
    ELSE KeepLoop(MapPut(matched, uniqueMatch[k].LeftId, uniqueMatch[k].RightId),
                  uniqueMatch, k + 1,
                  found \/ uniqueMatch[k].LeftId \in DOMAIN matched)

\* Variant of keepMatches that starts from an empty map.
keepMatchesFresh(matched, uniqueMatch) == KeepLoop(EmptyMap, uniqueMatch, 1, FALSE)

\* Returns the map and whether "Should never find multiple exact matches"
\* was logged.
keepMatches(matched, uniqueMatch) == KeepLoop(matched, uniqueMatch, 1, FALSE)

-----------------------------------------------------------------------------
(* MatchProcessing: pkg/match/match_processing.go *)

genRemainingMatchList(n) == [k \in 1 .. n |-> k - 1]

\* The ids that getId (getLeftId or getRightId) reads in a result list
IdsOf(list, getId) ==
    {IF getId = "getLeftId" THEN getLeftId(list[k]) ELSE getRightId(list[k]) :
        k \in DOMAIN list}

genSeededMatch(remaining, list, getId) ==
    SelectSeq(remaining, LAMBDA i : i \in IdsOf(list, getId))

genUnSeededMatch(remaining, list, getId) ==
    SelectSeq(remaining, LAMBDA i : i \notin IdsOf(list, getId))

reduceRemainingMatchList(remaining, uniqueMatch, getId) ==
    SelectSeq(remaining, LAMBDA i : i \notin IdsOf(uniqueMatch, getId))

\* Variant of adjustremainingMatch that forgets to reduce the source side.
adjustremainingMatchKeepSource(remS, remT, uniqueMatch) ==
    LET byLeft == SortBy("ByLeft", uniqueMatch)
        byRight == SortBy("ByRight", byLeft)
    IN [remSource |-> remS,
        remTarget |-> reduceRemainingMatchList(remT, byRight, "getRightId"),
        uniqueMatch |-> byRight]

\* Variant of adjustremainingMatch that forgets to reduce the target side.
adjustremainingMatchKeepTarget(remS, remT, uniqueMatch) ==
    LET byLeft == SortBy("ByLeft", uniqueMatch)
        byRight == SortBy("ByRight", byLeft)
    IN [remSource |-> reduceRemainingMatchList(remS, byLeft, "getLeftId"),
        remTarget |-> remT,
        uniqueMatch |-> byRight]

\* Returns the two remaining lists and the unique matches as it leaves them
\* sorted.
adjustremainingMatch(remS, remT, uniqueMatch) ==
    LET byLeft == SortBy("ByLeft", uniqueMatch)
        byRight == SortBy("ByRight", byLeft)
    IN [remSource |-> reduceRemainingMatchList(remS, byLeft, "getLeftId"),
        remTarget |-> reduceRemainingMatchList(remT, byRight, "getRightId"),
        uniqueMatch |-> byRight]

\* Variant of PrepareRemainingMatch whose first branch is never taken: with
\* both flags set only the seeded records are kept.
PrepareRemainingMatchSeededFirst(keepSeeded, keepUnseeded, remS, remT, curS, curT, list) ==
    LET byLeft == SortBy("ByLeft", list)
        byRight == SortBy("ByRight", byLeft)
    IN IF keepSeeded
       THEN [curSource |-> genSeededMatch(remS, byLeft, "getLeftId"),
             curTarget |-> genSeededMatch(remT, byRight, "getRightId"),
             list |-> byRight]
       ELSE IF keepUnseeded
       THEN [curSource |-> genUnSeededMatch(remS, byLeft, "getLeftId"),
             curTarget |-> genUnSeededMatch(remT, byRight, "getRightId"),
             list |-> byRight]
       ELSE [curSource |-> curS, curTarget |-> curT, list |-> list]

\* Variant of PrepareRemainingMatch that takes the full remaining sets
\* whenever the seeded records are kept.
PrepareRemainingMatchAllAlways(keepSeeded, keepUnseeded, remS, remT, curS, curT, list) ==
    LET byLeft == SortBy("ByLeft", list)
        byRight == SortBy("ByRight", byLeft)
    IN IF keepSeeded
       THEN [curSource |-> remS, curTarget |-> remT, list |-> list]
       ELSE IF keepUnseeded
       THEN [curSource |-> genUnSeededMatch(remS, byLeft, "getLeftId"),
             curTarget |-> genUnSeededMatch(remT, byRight, "getRightId"),
             list |-> byRight]
       ELSE [curSource |-> curS, curTarget |-> curT, list |-> list]

\* Variant of PrepareRemainingMatch with the branches of the single flags
\* exchanged.
PrepareRemainingMatchSwapped(keepSeeded, keepUnseeded, remS, remT, curS, curT, list) ==
    LET byLeft == SortBy("ByLeft", list)
        byRight == SortBy("ByRight", byLeft)
    IN IF keepSeeded /\ keepUnseeded
       THEN [curSource |-> remS, curTarget |-> remT, list |-> list]
       ELSE IF keepSeeded
       THEN [curSource |-> genUnSeededMatch(remS, byLeft, "getLeftId"),
             curTarget |-> genUnSeededMatch(remT, byRight, "getRightId"),
             list |-> byRight]
       ELSE IF keepUnseeded
       THEN [curSource |-> genSeededMatch(remS, byLeft, "getLeftId"),
             curTarget |-> genSeededMatch(remT, byRight, "getRightId"),
             list |-> byRight]
       ELSE [curSource |-> curS, curTarget |-> curT, list |-> list]

\* Returns the two current remaining lists and the result list as it leaves
\* it sorted.
PrepareRemainingMatch(keepSeeded, keepUnseeded, remS, remT, curS, curT, list) ==
    LET byLeft == SortBy("ByLeft", list)
        byRight == SortBy("ByRight", byLeft)
    IN IF keepSeeded /\ keepUnseeded
       THEN [curSource |-> remS, curTarget |-> remT, list |-> list]
       ELSE IF keepSeeded
       THEN [curSource |-> genSeededMatch(remS, byLeft, "getLeftId"),
             curTarget |-> genSeededMatch(remT, byRight, "getRightId"),
             list |-> byRight]
       ELSE IF keepUnseeded
       THEN [curSource |-> genUnSeededMatch(remS, byLeft, "getLeftId"),
             curTarget |-> genUnSeededMatch(remT, byRight, "getRightId"),
             list |-> byRight]
       ELSE [curSource |-> curS, curTarget |-> curT, list |-> list]

-----------------------------------------------------------------------------
(* One iteration of the loop of RunIndexRuleAll *)

RECURSIVE RulesLoop(_, _, _, _, _, _)
RulesLoop(indexRules, k, rawS, rawT, curS, curT) ==
    IF k > Len(indexRules) THEN [results |-> <<>>, maxMatchValue |-> 0]
    ELSE LET one == runIndexRule(indexRules[k], rawS, rawT, curS, curT)
             rest == RulesLoop(indexRules, k + 1, rawS, rawT, curS, curT)
         IN [results |-> one.results \o rest.results,
             maxMatchValue |-> (IF one.countsTowardsMax
                                THEN indexRules[k].WeightValue ELSE 0)
                               + rest.maxMatchValue]

ruleTypes == genSortedActiveList(baseRuleList, selfMatch)

\* One iteration of the loop over ruleTypes.  Each value the iteration
\* computes is bound once, in the order of the statements of the loop body.
RunTier ==
    /\ pc = "run"
    /\ tierI <= Len(ruleTypes)
    /\ \E indexRuleType \in {ruleTypes[tierI]} :
       \E prep \in {PrepareRemainingMatch(TRUE, indexRuleType.IsSeed, remSource, remTarget,
                                          curSource, curTarget, remainingResults)} :
       \E ran \in {RulesLoop(indexRuleType.IndexRules, 1, rawSource, rawTarget,
                             prep.curSource, prep.curTarget)} :
       \E merged \in {MergeRemainingWeightType(ran.results, prep.list)} :
       \E processed \in {ProcessMatches(merged, indexRuleType.SplitMatch,
                                        ran.maxMatchValue)} :
       \E adjusted \in {adjustremainingMatch(remSource, remTarget, processed.unique)} :
       \E kept \in {keepMatches(matchedEntities, adjusted.uniqueMatch)} :
           /\ maxMatchValue' = ran.maxMatchValue
           /\ remainingResults' = processed.list
           /\ uniqueMatchEntities' = adjusted.uniqueMatch
           /\ remSource' = adjusted.remSource
           /\ remTarget' = adjusted.remTarget
           /\ curSource' = IF indexRuleType.IsSeed THEN adjusted.remSource
                           ELSE prep.curSource
           /\ curTarget' = IF indexRuleType.IsSeed THEN adjusted.remTarget
                           ELSE prep.curTarget
           /\ matchedEntities' = kept.matched
           /\ errorLog' = errorLog
                              \cup (IF kept.found THEN {"multiple exact matches"} ELSE {})
                              \cup (IF processed.bad THEN {"did not trim properly"} ELSE {})
           /\ lastRuleType' = indexRuleType
    /\ tierI' = tierI + 1
    /\ UNCHANGED <<inputs, pc, flavour, output, ruleLoop, components>>

-----------------------------------------------------------------------------
(* Output assembly of entities: pkg/match/entities/match_entities_writer.go *)

EmptyOutput == [Matches |-> EmptyMap, MultiMatched |-> EmptyMap, UnMatched |-> <<>>]

\* addMatchingMultiMatched: st holds multiMatched and matchedByFirstSeen.
RECURSIVE FirstSeenLoop(_, _, _, _, _, _, _)
FirstSeenLoop(list, firstIdx, matchCount, j, entityIdSource, bestFirstSeen, st) ==
    IF j >= matchCount THEN st
    ELSE LET targetId == list[j + firstIdx + 1].RightId
             entityIdTarget == TgtId(targetId)
             firstSeen == firstSeenTms[targetId]
             better == firstSeen > bestFirstSeen
         IN FirstSeenLoop(list, firstIdx, matchCount, j + 1, entityIdSource,
                IF better THEN firstSeen ELSE bestFirstSeen,
                [multiMatched |->
                    MapPut(st.multiMatched, entityIdSource,
                           Append(st.multiMatched[entityIdSource], entityIdTarget)),
                 matchedByFirstSeen |->
                    IF better
                    THEN MapPut(st.matchedByFirstSeen, entityIdSource, entityIdTarget)
                    ELSE st.matchedByFirstSeen])

addMatchingMultiMatched(list, firstIdx, currentId, matchCount, prev, st) ==
    LET entityIdSource == SrcId(currentId)
    IN IF entityIdSource \in DOMAIN prev THEN st
       ELSE FirstSeenLoop(list, firstIdx, matchCount, 0, entityIdSource, 0,
                [st EXCEPT !.multiMatched = MapPut(st.multiMatched, entityIdSource, <<>>)])

\* The grouping loop over the result list; firstIdx is 0-based as in the code.
RECURSIVE GroupLoop(_, _, _, _, _, _)
GroupLoop(list, i, firstIdx, currentId, prev, st) ==
    IF i >= Len(list)
    THEN addMatchingMultiMatched(list, firstIdx, currentId, Len(list) - firstIdx, prev, st)
    ELSE IF list[i + 1].LeftId # currentId
         THEN GroupLoop(list, i + 1, i, list[i + 1].LeftId, prev,
                        addMatchingMultiMatched(list, firstIdx, currentId, i - firstIdx,
                                                prev, st))
         ELSE GroupLoop(list, i + 1, firstIdx, currentId, prev, st)

\* Variant of BlockLoop that blocks only the source visited second.
RECURSIVE BlockLoopLaterOnly(_, _, _, _, _)
BlockLoopLaterOnly(byFirstSeen, ord, k, reverseMatches, blockedSource) ==
    IF k > Len(ord) THEN blockedSource
    ELSE LET entityIdSource == ord[k]
             entityIdTarget == byFirstSeen[entityIdSource]
         IN IF entityIdTarget \in DOMAIN reverseMatches
            THEN BlockLoopLaterOnly(byFirstSeen, ord, k + 1, reverseMatches,
                                    blockedSource \cup {entityIdSource})
            ELSE BlockLoopLaterOnly(byFirstSeen, ord, k + 1,
                                    MapPut(reverseMatches, entityIdTarget, entityIdSource),
                                    blockedSource)

\* The loop that blocks the sources whose first-seen choice is the same
\* target, visiting matchedByFirstSeen in the order ord.
RECURSIVE BlockLoop(_, _, _, _, _)
BlockLoop(byFirstSeen, ord, k, reverseMatches, blockedSource) ==
    IF k > Len(ord) THEN blockedSource
    ELSE LET entityIdSource == ord[k]
             entityIdTarget == byFirstSeen[entityIdSource]
         IN IF entityIdTarget \in DOMAIN reverseMatches
            THEN BlockLoop(byFirstSeen, ord, k + 1, reverseMatches,
                           blockedSource \cup {reverseMatches[entityIdTarget], entityIdSource})
            ELSE BlockLoop(byFirstSeen, ord, k + 1,
                           MapPut(reverseMatches, entityIdTarget, entityIdSource),
                           blockedSource)

\* matchedByFirstSeen before the blocked sources are removed.
firstSeenCandidates(list, prev) ==
    IF Len(list) <= 0 THEN EmptyMap
    ELSE GroupLoop(list, 1, 0, list[1].LeftId, prev,
                   [multiMatched |-> EmptyMap, matchedByFirstSeen |-> EmptyMap]).matchedByFirstSeen

genMultiMatchedMap(list, prev, ordB) ==
    IF Len(list) <= 0 THEN [multiMatched |-> EmptyMap, matchedByFirstSeen |-> EmptyMap]
    ELSE LET st == GroupLoop(list, 1, 0, list[1].LeftId, prev,
                             [multiMatched |-> EmptyMap, matchedByFirstSeen |-> EmptyMap])
             blockedSource == BlockLoop(st.matchedByFirstSeen, ordB, 1, EmptyMap, {})
         IN [multiMatched |-> st.multiMatched,
             matchedByFirstSeen |->
                [e \in (DOMAIN st.matchedByFirstSeen) \ blockedSource |->
                    st.matchedByFirstSeen[e]]]

\* Variants of isAlreadyMatched that look at one side only.
isAlreadyMatchedTargetOnly(st, entityIdSource, entityIdTarget) ==
    entityIdTarget \in DOMAIN st.reverseMatches

isAlreadyMatchedSourceOnly(st, entityIdSource, entityIdTarget) ==
    entityIdSource \in DOMAIN st.Matches

\* One of the three loops of genOutputPayload over a map source id -> target id,
\* visited in the order ord; st holds matchOutput.Matches and reverseMatches.
isAlreadyMatched(st, entityIdSource, entityIdTarget) ==
    \/ entityIdSource \in DOMAIN st.Matches
    \/ entityIdTarget \in DOMAIN st.reverseMatches

RECURSIVE MatchLoop(_, _, _, _)
MatchLoop(m, ord, k, st) ==
    IF k > Len(ord) THEN st
    ELSE LET entityIdSource == ord[k]
             entityIdTarget == m[entityIdSource]
         IN IF isAlreadyMatched(st, entityIdSource, entityIdTarget)
            THEN MatchLoop(m, ord, k + 1, st)
            ELSE MatchLoop(m, ord, k + 1,
                    [Matches |-> MapPut(st.Matches, entityIdSource, entityIdTarget),
                     reverseMatches |->
                        MapPut(st.reverseMatches, entityIdTarget, entityIdSource)])

\* matchedEntities with the external identifiers of the records
matchedIds(matched) ==
    [sid \in {SrcId(i) : i \in DOMAIN matched} |->
        TgtId(matched[CHOOSE i \in DOMAIN matched : SrcId(i) = sid])]

\* Variant of the UnMatched loop that does not look at the previous matches.
unMatchedEntitiesNoPrev(current, prev) ==
    [k \in DOMAIN current |-> SrcId(current[k])]

\* The UnMatched loop of the entities flavour
unMatchedEntities(current, prev) ==
    LET ids == [k \in DOMAIN current |-> SrcId(current[k])]
    IN SelectSeq(ids, LAMBDA e : e \notin DOMAIN prev)

genOutputPayload(list, matched, prev, remS, remT, curS, curT, ordB, ordM, ordP, ordF) ==
    LET multi == genMultiMatchedMap(list, prev, ordB)
        prep == PrepareRemainingMatch(FALSE, TRUE, remS, remT, curS, curT, list)
        current == MatchLoop(matchedIds(matched), ordM, 1,
                             [Matches |-> EmptyMap, reverseMatches |-> EmptyMap])
        previous == MatchLoop(prev, ordP, 1, current)
        firstSeen == MatchLoop(multi.matchedByFirstSeen, ordF, 1, previous)
    IN [Matches |-> firstSeen.Matches,
        MultiMatched |-> multi.multiMatched,
        UnMatched |-> unMatchedEntities(prep.curSource, prev)]

GenOutputPayloadEntities ==
    /\ pc = "run"
    /\ tierI > Len(ruleTypes)
    /\ LET prep == PrepareRemainingMatch(FALSE, TRUE, remSource, remTarget,
                                         curSource, curTarget, remainingResults)
       IN /\ \E ordB \in Orders(DOMAIN firstSeenCandidates(remainingResults, prevMatches)),
                ordM \in Orders(DOMAIN matchedIds(matchedEntities)),
                ordP \in Orders(DOMAIN prevMatches) :
                \E ordF \in Orders(DOMAIN genMultiMatchedMap(remainingResults, prevMatches,
                                                            ordB).matchedByFirstSeen) :
                    output' = genOutputPayload(remainingResults, matchedEntities, prevMatches,
                                               remSource, remTarget, curSource, curTarget,
                                               ordB, ordM, ordP, ordF)
          /\ curSource' = prep.curSource
          /\ curTarget' = prep.curTarget
          /\ remainingResults' = prep.list
    /\ flavour' = "entities"
    /\ pc' = "done"
    /\ UNCHANGED <<inputs, tierI, remSource, remTarget, matchedEntities,
                   uniqueMatchEntities, maxMatchValue, lastRuleType, errorLog,
                   ruleLoop, components>>

-----------------------------------------------------------------------------
(* Output assembly of configs: pkg/match/configs/match_configs_writer.go *)

\* Variant of addMatchingMultiMatched (configs) that lists one target less.
addMatchingMultiMatchedConfigsShort(list, firstIdx, currentId, matchCount, multiMatched) ==
    MapPut(multiMatched, SrcId(currentId),
           [j \in 1 .. (matchCount - 1) |-> TgtId(list[j + firstIdx].RightId)])

addMatchingMultiMatchedConfigs(list, firstIdx, currentId, matchCount, multiMatched) ==
    MapPut(multiMatched, SrcId(currentId),
           [j \in 1 .. matchCount |-> TgtId(list[j + firstIdx].RightId)])

RECURSIVE GroupLoopConfigs(_, _, _, _, _)
GroupLoopConfigs(list, i, firstIdx, currentId, multiMatched) ==
    IF i >= Len(list)
    THEN addMatchingMultiMatchedConfigs(list, firstIdx, currentId, Len(list) - firstIdx,
                                        multiMatched)
    ELSE IF list[i + 1].LeftId # currentId
         THEN GroupLoopConfigs(list, i + 1, i, list[i + 1].LeftId,
                               addMatchingMultiMatchedConfigs(list, firstIdx, currentId,
                                                              i - firstIdx, multiMatched))
         ELSE GroupLoopConfigs(list, i + 1, firstIdx, currentId, multiMatched)

genMultiMatchedMapConfigs(list) ==
    IF Len(list) <= 0 THEN EmptyMap
    ELSE GroupLoopConfigs(list, 1, 0, list[1].LeftId, EmptyMap)

genOutputPayloadConfigs(list, matched, remS, remT, curS, curT) ==
    LET prep == PrepareRemainingMatch(FALSE, TRUE, remS, remT, curS, curT, list)
    IN [Matches |-> matchedIds(matched),
        MultiMatched |-> genMultiMatchedMapConfigs(list),
        UnMatched |-> [k \in DOMAIN prep.curSource |-> SrcId(prep.curSource[k])]]

GenOutputPayloadConfigs ==
    /\ pc = "run"
    /\ tierI > Len(ruleTypes)
    /\ LET prep == PrepareRemainingMatch(FALSE, TRUE, remSource, remTarget,
                                         curSource, curTarget, remainingResults)
       IN /\ output' = genOutputPayloadConfigs(remainingResults, matchedEntities,
                                               remSource, remTarget, curSource, curTarget)
          /\ curSource' = prep.curSource
          /\ curTarget' = prep.curTarget
          /\ remainingResults' = prep.list
    /\ flavour' = "configs"
    /\ pc' = "done"
    /\ UNCHANGED <<inputs, tierI, remSource, remTarget, matchedEntities,
                   uniqueMatchEntities, maxMatchValue, lastRuleType, errorLog,
                   ruleLoop, components>>

-----------------------------------------------------------------------------
(* Inputs of a run *)

\* Keys extracted from a record by the rules 1, 2 and 3 (0: no key).
Shapes == {<<0, 0, 0>>, <<1, 1, 0>>, <<1, 0, 1>>, <<0, 0, 1>>}

OutSourceShapes == {<<0, 0, 0>>, <<1, 0, 0>>, <<1, 1, 0>>}

OutTargetShapes == {<<1, 0, 0>>, <<1, 1, 0>>}

FirstSeenValues == {1, 2}

\* A tier of the rules 1 and 2 above a tier of the rule 3.
RuleConfig(seed1, split1, seed2, split2) ==
    <<IndexRuleType(0, seed1, split1, 20, <<IndexRule(1, 2), IndexRule(2, 1)>>),
      IndexRuleType(0, seed2, split2, 10, <<IndexRule(3, 1)>>)>>

RuleConfigs ==
    {RuleConfig(seed1, split1, seed2, FALSE) :
        seed1 \in BOOLEAN, split1 \in BOOLEAN, seed2 \in BOOLEAN}

\* The Matches of a previous output: one-to-one, as genOutputPayload writes them.
PrevMatchesSets ==
    UNION {{m \in [D -> TgtIds] : \A a, b \in D : a # b => m[a] # m[b]} :
              D \in SUBSET SrcIds}

NoResult == [returned |-> FALSE]

MatchConfigsIdle ==
    /\ faults = <<>>
    /\ workers = <<>>
    /\ errs = <<>>
    /\ stats = <<>>
    /\ configsSourceCount = 0
    /\ configsTargetCount = 0
    /\ waitGroup = 0
    /\ fsFiles = {}

PrevIdle ==
    /\ matchParameters = [PrevResultDir |-> ""]
    /\ prevFs = [existsErr |-> FALSE, file |-> "missing"]

DeployIdle ==
    /\ sortedConfigs = <<>>
    /\ deployOptions = [continueOnError |-> FALSE, dryRun |-> FALSE]
    /\ deployI = 1
    /\ deployErrors = <<>>
    /\ entityMap = {}
    /\ attempted = <<>>

DownloadIdle ==
    /\ dlEnv = <<>>
    /\ apiPc = <<>>
    /\ cfgPc = <<>>
    /\ apiWg = <<>>
    /\ dlWg = 0
    /\ apiResults = <<>>
    /\ dlResults = EmptyMap

ComponentsIdle ==
    /\ activeList = <<>>
    /\ MatchConfigsIdle
    /\ callResult = NoResult
    /\ PrevIdle
    /\ DeployIdle
    /\ DownloadIdle

RuleLoopIdle ==
    /\ ruleRuns = <<>>
    /\ ruleI = 1

EngineIdle ==
    /\ RuleLoopIdle
    /\ rawSource = [i \in SrcIdx |-> <<0, 0, 0>>]
    /\ rawTarget = [j \in TgtIdx |-> <<0, 0, 0>>]
    /\ firstSeenTms = [j \in TgtIdx |-> 1]
    /\ prevMatches = EmptyMap
    /\ tierI = 1
    /\ remSource = <<>>
    /\ remTarget = <<>>
    /\ curSource = <<>>
    /\ curTarget = <<>>
    /\ remainingResults = <<>>
    /\ matchedEntities = EmptyMap
    /\ uniqueMatchEntities = <<>>
    /\ maxMatchValue = 0
    /\ lastRuleType = NoRuleType
    /\ errorLog = {}
    /\ flavour = "none"
    /\ output = EmptyOutput

InitRun ==
    /\ selfMatch = FALSE
    /\ ComponentsIdle
    /\ RuleLoopIdle
    /\ pc = "run"
    /\ tierI = 1
    /\ remSource = genRemainingMatchList(NSrc)
    /\ remTarget = genRemainingMatchList(NTgt)
    /\ curSource = <<>>
    /\ curTarget = <<>>
    /\ remainingResults = <<>>
    /\ matchedEntities = EmptyMap
    /\ uniqueMatchEntities = <<>>
    /\ maxMatchValue = 0
    /\ lastRuleType = NoRuleType
    /\ errorLog = {}
    /\ flavour = "none"
    /\ output = EmptyOutput

\* Runs without a previous result, over every rule configuration.
Init ==
    /\ rawSource \in [SrcIdx -> Shapes]
    /\ rawTarget \in [TgtIdx -> Shapes]
    /\ firstSeenTms = [j \in TgtIdx |-> 1]
    /\ baseRuleList \in RuleConfigs
    /\ prevMatches = EmptyMap
    /\ InitRun

\* Runs of the entities with first-seen attributes and a previous result.
InitOut ==
    /\ rawSource \in [SrcIdx -> OutSourceShapes]
    /\ rawTarget \in [TgtIdx -> OutTargetShapes]
    /\ firstSeenTms \in [TgtIdx -> FirstSeenValues]
    /\ baseRuleList = RuleConfig(TRUE, FALSE, TRUE, FALSE)
    /\ prevMatches \in PrevMatchesSets
    /\ InitRun

Next ==
    \/ RunTier
    \/ GenOutputPayloadEntities
    \/ GenOutputPayloadConfigs

Spec == Init /\ [][Next]_vars

SpecOut == InitOut /\ [][Next]_vars

-----------------------------------------------------------------------------
(* The rule list of a run: genActiveList and genSortedActiveList applied to  *)
(* rule configurations of every shape                                       *)

\* Bound of the model: number of tiers of a short rule configuration.
MaxTiers == 3

TierWeights == {10, 20}

\* The rules of a configured tier: the rule 1, or the rules 1 and 2, each
\* with or without the self-match-disabled flag.
ConfRule(key, disabled) ==
    [Key |-> key, WeightValue |-> 1, SelfMatchDisabled |-> disabled]

ConfRuleLists ==
    {<<ConfRule(1, d)>> : d \in BOOLEAN}
        \cup {<<ConfRule(1, d1), ConfRule(2, d2)>> : d1 \in BOOLEAN, d2 \in BOOLEAN}

ConfTiers ==
    {IndexRuleType(0, FALSE, FALSE, w, r) : w \in TierWeights, r \in ConfRuleLists}

ShortRuleLists == UNION {[1 .. n -> ConfTiers] : n \in 0 .. MaxTiers}

\* Rule configurations one tier longer than the insertion sort of sort.Sort
\* takes, each tier with the rule 1.
LongRuleLists ==
    {[idx \in 1 .. (maxInsertion + 1) |->
         IndexRuleType(0, FALSE, FALSE, w[idx], <<ConfRule(1, FALSE)>>)] :
        w \in [1 .. (maxInsertion + 1) -> TierWeights]}

InitRules ==
    /\ baseRuleList \in ShortRuleLists \cup LongRuleLists
    /\ selfMatch \in BOOLEAN
    /\ pc = "rules"
    /\ activeList = <<>>
    /\ MatchConfigsIdle
    /\ callResult = NoResult
    /\ PrevIdle
    /\ DeployIdle
    /\ DownloadIdle
    /\ EngineIdle

GenActiveList ==
    /\ pc = "rules"
    /\ activeList' = genActiveList(baseRuleList, selfMatch)
    /\ pc' = "active"
    /\ UNCHANGED outsideRules

GenSortedActiveList ==
    /\ pc = "rules"
    /\ activeList' = genSortedActiveList(baseRuleList, selfMatch)
    /\ pc' = "sorted"
    /\ UNCHANGED outsideRules

NextRules ==
    \/ GenActiveList
    \/ GenSortedActiveList

SpecRules == InitRules /\ [][NextRules]_vars

-----------------------------------------------------------------------------
(* MatchConfigs: pkg/match/configs/match_configs.go, one goroutine per      *)
(* configs type, and writeMatches of the configs                            *)

\* Bound of the model: number of configs types of configPerTypeTarget.
NCfgTypes == 2

CfgTypes == 1 .. NCfgTypes

\* The call of a worker that returns an error ("none": no call fails).
\* json.Marshal of a match output or of an unmarshalled config cannot fail.
WriteFaults == {"MkdirAll dict", "WriteFile", "MkdirAll cache", "NewTarFolder"}

WorkerFaults == {"none", "LoadMatches", "genConfigProcessing"} \cup WriteFaults

\* len(configProcessingPtr.Source.RemainingMatch) and
\* len(configProcessingPtr.Target.RemainingMatch) of a type.
SourceCountOf(configsType) == configsType

TargetCountOf(configsType) == configsType + 1

DictFile(sanitizedType) == [dir |-> "dict", type |-> sanitizedType]

CacheFile(sanitizedType) == [dir |-> "cache", type |-> sanitizedType]

\* writeJsonMatchFile then writeTarFile: the files of the output directory
\* after the call, and whether it returned an error.
writeJsonMatchFile(files, sanitizedType, fault) ==
    IF fault \in {"MkdirAll dict", "WriteFile"} THEN [files |-> files, err |-> TRUE]
    ELSE [files |-> files \cup {DictFile(sanitizedType)}, err |-> FALSE]

writeTarFile(files, sanitizedType, fault) ==
    IF fault \in {"MkdirAll cache", "NewTarFolder"} THEN [files |-> files, err |-> TRUE]
    ELSE [files |-> files \cup {CacheFile(sanitizedType)}, err |-> FALSE]

writeMatchesTar(written, sanitizedType, fault) ==
    IF written.err THEN written ELSE writeTarFile(written.files, sanitizedType, fault)

writeMatches(files, configsType, fault) ==
    writeMatchesTar(writeJsonMatchFile(files, configsType, fault), configsType, fault)

\* An append that is lost.
appendErrsLost(list, err) == list

\* append under the mutex
appendErrs(list, err) == Append(list, err)

\* errutils.PrintAndFormatErrors: one error that carries all of the list
PrintAndFormatErrors(list) == [message |-> "failed to match configs with required fields", errors |-> list]

InitMatchConfigs ==
    /\ faults \in [CfgTypes -> WorkerFaults]
    /\ workers = [configsType \in CfgTypes |-> "start"]
    /\ errs = <<>>
    /\ stats = <<>>
    /\ configsSourceCount = 0
    /\ configsTargetCount = 0
    /\ waitGroup = NCfgTypes
    /\ fsFiles = {}
    /\ callResult = NoResult
    /\ pc = "wait"
    /\ activeList = <<>>
    /\ PrevIdle
    /\ DeployIdle
    /\ DownloadIdle
    /\ baseRuleList = <<>>
    /\ selfMatch = FALSE
    /\ EngineIdle

WorkerFrame == UNCHANGED <<outsideMatchConfigs, faults, pc, callResult>>

\* entities.LoadMatches
LoadMatches(configsType) ==
    /\ workers[configsType] = "start"
    /\ workers' = [workers EXCEPT ![configsType] =
                      IF faults[configsType] = "LoadMatches" THEN "failed" ELSE "loaded"]
    /\ UNCHANGED <<errs, stats, configsSourceCount, configsTargetCount, waitGroup, fsFiles>>
    /\ WorkerFrame

\* genConfigProcessing
GenConfigProcessing(configsType) ==
    /\ workers[configsType] = "loaded"
    /\ workers' = [workers EXCEPT ![configsType] =
                      IF faults[configsType] = "genConfigProcessing" THEN "failed"
                      ELSE "processing"]
    /\ UNCHANGED <<errs, stats, configsSourceCount, configsTargetCount, waitGroup, fsFiles>>
    /\ WorkerFrame

\* runRules, then writeMatches
WriteMatches(configsType) ==
    /\ workers[configsType] = "processing"
    /\ \E written \in {writeMatches(fsFiles, configsType, faults[configsType])} :
          /\ fsFiles' = written.files
          /\ workers' = [workers EXCEPT ![configsType] =
                            IF written.err THEN "failed" ELSE "written"]
    /\ UNCHANGED <<errs, stats, configsSourceCount, configsTargetCount, waitGroup>>
    /\ WorkerFrame

\* mutex.Lock(); errs = append(errs, err); mutex.Unlock(); return
AppendErr(configsType) ==
    /\ workers[configsType] = "failed"
    /\ errs' = appendErrs(errs, [type |-> configsType, call |-> faults[configsType]])
    /\ workers' = [workers EXCEPT ![configsType] = "returning"]
    /\ UNCHANGED <<stats, configsSourceCount, configsTargetCount, waitGroup, fsFiles>>
    /\ WorkerFrame

\* mutex.Lock(); the counters and the statistics line; mutex.Unlock()
AppendStats(configsType) ==
    /\ workers[configsType] = "written"
    /\ configsSourceCount' = configsSourceCount + SourceCountOf(configsType)
    /\ configsTargetCount' = configsTargetCount + TargetCountOf(configsType)
    /\ stats' = Append(stats, configsType)
    /\ workers' = [workers EXCEPT ![configsType] = "returning"]
    /\ UNCHANGED <<errs, waitGroup, fsFiles>>
    /\ WorkerFrame

\* defer waitGroup.Done()
WaitGroupDone(configsType) ==
    /\ workers[configsType] = "returning"
    /\ waitGroup' = waitGroup - 1
    /\ workers' = [workers EXCEPT ![configsType] = "done"]
    /\ UNCHANGED <<errs, stats, configsSourceCount, configsTargetCount, fsFiles>>
    /\ WorkerFrame

\* The first line of stats, written before the goroutines are started.
StatsHeader == "Type Matched MultiMatched UnMatched Total Source"

\* What MatchConfigs returns from the shared error list, statistics lines
\* and counters.
MatchConfigsResult ==
    IF Len(errs) >= 1
    THEN [returned |-> TRUE, stats |-> <<>>, configsSourceCount |-> 0,
          configsTargetCount |-> 0, err |-> PrintAndFormatErrors(errs)]
    ELSE [returned |-> TRUE, stats |-> <<StatsHeader>> \o stats,
          configsSourceCount |-> configsSourceCount,
          configsTargetCount |-> configsTargetCount, err |-> <<>>]

\* Variant of MatchConfigsReturn without waitGroup.Wait().
MatchConfigsReturnNoWait ==
    /\ pc = "wait"
    /\ pc' = "returned"
    /\ callResult' = MatchConfigsResult
    /\ UNCHANGED <<outsideMatchConfigs, matchConfigs>>

\* waitGroup.Wait() and the return of MatchConfigs
MatchConfigsReturn ==
    /\ pc = "wait"
    /\ waitGroup = 0
    /\ pc' = "returned"
    /\ callResult' = MatchConfigsResult
    /\ UNCHANGED <<outsideMatchConfigs, matchConfigs>>

NextMatchConfigs ==
    \/ \E configsType \in CfgTypes : LoadMatches(configsType)
    \/ \E configsType \in CfgTypes : GenConfigProcessing(configsType)
    \/ \E configsType \in CfgTypes : WriteMatches(configsType)
    \/ \E configsType \in CfgTypes : AppendErr(configsType)
    \/ \E configsType \in CfgTypes : AppendStats(configsType)
    \/ \E configsType \in CfgTypes : WaitGroupDone(configsType)
    \/ MatchConfigsReturn

SpecMatchConfigs == InitMatchConfigs /\ [][NextMatchConfigs]_vars

-----------------------------------------------------------------------------
(* readMatchesPrev: pkg/match/entities/match_entities_writer.go             *)

\* The file <PrevResultDir>/<type>.json as afero.ReadFile meets it: missing,
\* unreadable, of length 0, not the JSON of a MatchOutputType, or the JSON of
\* the output of a previous run.
PrevFiles ==
    {[existsErr |-> e, file |-> f] :
        e \in BOOLEAN, f \in {"missing", "unreadable", "empty", "malformed"}}
    \cup {[existsErr |-> e, file |-> "valid", Matches |-> m] :
        e \in BOOLEAN, m \in PrevMatchesSets}

EmptyMatchOutputType == [Matches |-> EmptyMap]

\* json.Unmarshal(data, &prevResult)
UnmarshalPrev(file) ==
    IF file.file = "valid" THEN [prev |-> [Matches |-> file.Matches], err |-> "none"]
    ELSE [prev |-> EmptyMatchOutputType, err |-> "unmarshal"]

\* readMatchesPrev that takes every file it could read for a previous output.
readMatchesPrevNoEmptyCheck(parameters, file) ==
    IF parameters.PrevResultDir = "" THEN [prev |-> EmptyMatchOutputType, err |-> "none"]
    ELSE IF file.existsErr THEN [prev |-> EmptyMatchOutputType, err |-> "none"]
    ELSE IF file.file \in {"missing", "unreadable"}
         THEN [prev |-> EmptyMatchOutputType, err |-> "none"]
    ELSE IF file.file = "valid" THEN [prev |-> [Matches |-> file.Matches], err |-> "none"]
    ELSE [prev |-> EmptyMatchOutputType, err |-> "none"]

readMatchesPrev(parameters, file) ==
    IF parameters.PrevResultDir = "" THEN [prev |-> EmptyMatchOutputType, err |-> "none"]
    ELSE IF file.existsErr THEN [prev |-> EmptyMatchOutputType, err |-> "none"]
    ELSE IF file.file \in {"missing", "unreadable"}
         THEN [prev |-> EmptyMatchOutputType, err |-> "none"]
    ELSE IF file.file = "empty" THEN [prev |-> EmptyMatchOutputType, err |-> "empty"]
    ELSE UnmarshalPrev(file)

InitPrev ==
    /\ matchParameters \in {[PrevResultDir |-> d] : d \in {"", "prev"}}
    /\ prevFs \in PrevFiles
    /\ pc = "call"
    /\ callResult = NoResult
    /\ activeList = <<>>
    /\ MatchConfigsIdle
    /\ DeployIdle
    /\ DownloadIdle
    /\ baseRuleList = <<>>
    /\ selfMatch = FALSE
    /\ EngineIdle

ReadMatchesPrev ==
    /\ pc = "call"
    /\ \E read \in {readMatchesPrev(matchParameters, prevFs)} :
          callResult' = [returned |-> TRUE, prev |-> read.prev, err |-> read.err]
    /\ pc' = "returned"
    /\ UNCHANGED <<outsidePrev, prevVars>>

NextPrev == ReadMatchesPrev

SpecPrev == InitPrev /\ [][NextPrev]_vars

-----------------------------------------------------------------------------
(* DeployConfigs: the loop over the sorted configs                          *)

\* Bounds of the model: number of configs to deploy, and number of errors
\* one deployment returns.
NConfigs == 3

MaxDeployErrors == 2

\* A config: its Skip flag and the number of errors its deployment returns
\* (0: deploySetting / deployConfig return an entity and nil).
DeployableConfigs == {[Skip |-> sk, errs |-> n] : sk \in BOOLEAN, n \in 0 .. MaxDeployErrors}

\* The non-nil deploymentErrors of the config at position i
deploymentErrors(i, c) == [k \in 1 .. c.errs |-> [config |-> i, error |-> k]]

\* A loop that returns at every config whose deployment fails.
stopsOnErrorAlways(continueOnError, dryRun) == TRUE

\* if continueOnError || dryRun { continue } else { return errors }
stopsOnError(continueOnError, dryRun) == ~(continueOnError \/ dryRun)

InitDeploy ==
    /\ sortedConfigs \in UNION {[1 .. n -> DeployableConfigs] : n \in 0 .. NConfigs}
    /\ deployOptions \in [continueOnError : BOOLEAN, dryRun : BOOLEAN]
    /\ deployI = 1
    /\ deployErrors = <<>>
    /\ entityMap = {}
    /\ attempted = <<>>
    /\ pc = "deploy"
    /\ callResult = NoResult
    /\ activeList = <<>>
    /\ MatchConfigsIdle
    /\ PrevIdle
    /\ DownloadIdle
    /\ baseRuleList = <<>>
    /\ selfMatch = FALSE
    /\ EngineIdle

\* One iteration of the loop over sortedConfigs: a skipped config
DeploySkipped ==
    /\ pc = "deploy"
    /\ deployI <= Len(sortedConfigs)
    /\ sortedConfigs[deployI].Skip
    /\ entityMap' = entityMap \cup {[config |-> deployI, Skip |-> TRUE]}
    /\ deployI' = deployI + 1
    /\ UNCHANGED <<outsideDeploy, sortedConfigs, deployOptions, deployErrors, attempted,
                   pc, callResult>>

\* One iteration of the loop: the deployment returns an entity
DeployResolved ==
    /\ pc = "deploy"
    /\ deployI <= Len(sortedConfigs)
    /\ ~sortedConfigs[deployI].Skip
    /\ sortedConfigs[deployI].errs = 0
    /\ attempted' = Append(attempted, deployI)
    /\ entityMap' = entityMap \cup {[config |-> deployI, Skip |-> FALSE]}
    /\ deployI' = deployI + 1
    /\ UNCHANGED <<outsideDeploy, sortedConfigs, deployOptions, deployErrors, pc, callResult>>

\* One iteration of the loop: the deployment returns errors
DeployFailed ==
    /\ pc = "deploy"
    /\ deployI <= Len(sortedConfigs)
    /\ ~sortedConfigs[deployI].Skip
    /\ sortedConfigs[deployI].errs > 0
    /\ attempted' = Append(attempted, deployI)
    /\ \E errors \in {deployErrors \o deploymentErrors(deployI, sortedConfigs[deployI])} :
          /\ deployErrors' = errors
          /\ IF stopsOnError(deployOptions.continueOnError, deployOptions.dryRun)
             THEN /\ pc' = "returned"
                  /\ callResult' = [returned |-> TRUE, errors |-> errors]
                  /\ UNCHANGED deployI
             ELSE /\ deployI' = deployI + 1
                  /\ UNCHANGED <<pc, callResult>>
    /\ UNCHANGED <<outsideDeploy, sortedConfigs, deployOptions, entityMap>>

\* return errors, after the loop
DeployReturn ==
    /\ pc = "deploy"
    /\ deployI > Len(sortedConfigs)
    /\ pc' = "returned"
    /\ callResult' = [returned |-> TRUE, errors |-> deployErrors]
    /\ UNCHANGED <<outsideDeploy, deployVars>>

NextDeploy ==
    \/ DeploySkipped
    \/ DeployResolved
    \/ DeployFailed
    \/ DeployReturn

SpecDeploy == InitDeploy /\ [][NextDeploy]_vars

-----------------------------------------------------------------------------
(* Downloader.DownloadAll and downloadConfigsOfAPI: one goroutine per API,  *)
(* one goroutine per config of an API                                       *)

\* Bounds of the model: number of APIs to download, and number of configs
\* the listing of an API returns.
NApis == 2

MaxValues == 2

ApiIds == 1 .. NApis

\* What happens to a listed config: skipped before the download
\* (shouldBeSkippedPreDownload), ReadConfigById fails, the response is not a
\* JSON object, the filter shouldConfigBePersisted rejects it, or it becomes
\* a config.
ValueOutcomes == {"skipped", "fetchError", "malformed", "notPersisted", "ok"}

\* The answers for one API: the listing fails, or it returns values.  (The
\* single value of a SingleConfiguration API is a listing of one value.)
ApiAnswers ==
    {[listErr |-> TRUE, values |-> <<>>]}
        \cup {[listErr |-> FALSE, values |-> v] :
                 v \in UNION {[1 .. n -> ValueOutcomes] : n \in 0 .. MaxValues}}

\* filterConfigsToSkip that keeps every value.
filterConfigsToSkipNone(values) == DOMAIN values

\* filterConfigsToSkip: the positions of the values that are not skipped
filterConfigsToSkip(values) == {v \in DOMAIN values : values[v] # "skipped"}

InitDownload ==
    /\ dlEnv \in [ApiIds -> ApiAnswers]
    /\ apiPc = [a \in ApiIds |-> "start"]
    /\ cfgPc = [a \in ApiIds |-> [v \in 1 .. MaxValues |-> "none"]]
    /\ apiWg = [a \in ApiIds |-> 0]
    /\ dlWg = NApis
    /\ apiResults = [a \in ApiIds |-> <<>>]
    /\ dlResults = EmptyMap
    /\ pc = "download"
    /\ callResult = NoResult
    /\ activeList = <<>>
    /\ MatchConfigsIdle
    /\ PrevIdle
    /\ DeployIdle
    /\ baseRuleList = <<>>
    /\ selfMatch = FALSE
    /\ EngineIdle

DownloadFrame == UNCHANGED <<outsideDownload, dlEnv, pc, callResult>>

\* findConfigsToDownload and filterConfigsToSkip; with configs left, the
\* goroutines of downloadConfigsOfAPI are started.
FindConfigsToDownload(a) ==
    /\ apiPc[a] = "start"
    /\ \E configsToDownload \in {filterConfigsToSkip(dlEnv[a].values)} :
          IF dlEnv[a].listErr \/ configsToDownload = {}
          THEN /\ apiPc' = [apiPc EXCEPT ![a] = "done"]
               /\ dlWg' = dlWg - 1
               /\ UNCHANGED <<cfgPc, apiWg>>
          ELSE /\ apiPc' = [apiPc EXCEPT ![a] = "downloading"]
               /\ cfgPc' = [cfgPc EXCEPT ![a] =
                               [v \in 1 .. MaxValues |->
                                   IF v \in configsToDownload THEN "start" ELSE "none"]]
               /\ apiWg' = [apiWg EXCEPT ![a] = Cardinality(configsToDownload)]
               /\ UNCHANGED dlWg
    /\ UNCHANGED <<apiResults, dlResults>>
    /\ DownloadFrame

\* downloadAndUnmarshalConfig of one config
DownloadAndUnmarshalConfig(a, v) ==
    /\ cfgPc[a][v] = "start"
    /\ IF dlEnv[a].values[v] \in {"fetchError", "malformed"}
       THEN /\ cfgPc' = [cfgPc EXCEPT ![a][v] = "done"]
            /\ apiWg' = [apiWg EXCEPT ![a] = apiWg[a] - 1]
       ELSE /\ cfgPc' = [cfgPc EXCEPT ![a][v] = "fetched"]
            /\ UNCHANGED apiWg
    /\ UNCHANGED <<apiPc, dlWg, apiResults, dlResults>>
    /\ DownloadFrame

\* skipPersist, createConfigForDownloadedJson and the append under the mutex
PersistConfig(a, v) ==
    /\ cfgPc[a][v] = "fetched"
    /\ apiResults' = IF dlEnv[a].values[v] = "notPersisted" THEN apiResults
                     ELSE [apiResults EXCEPT ![a] = Append(apiResults[a], v)]
    /\ cfgPc' = [cfgPc EXCEPT ![a][v] = "done"]
    /\ apiWg' = [apiWg EXCEPT ![a] = apiWg[a] - 1]
    /\ UNCHANGED <<apiPc, dlWg, dlResults>>
    /\ DownloadFrame

\* wg.Wait() of downloadConfigsOfAPI, then results[currentApi.ID] = configs
StoreResults(a) ==
    /\ apiPc[a] = "downloading"
    /\ apiWg[a] = 0
    /\ dlResults' = IF Len(apiResults[a]) > 0 THEN MapPut(dlResults, a, apiResults[a])
                    ELSE dlResults
    /\ apiPc' = [apiPc EXCEPT ![a] = "done"]
    /\ dlWg' = dlWg - 1
    /\ UNCHANGED <<cfgPc, apiWg, apiResults>>
    /\ DownloadFrame

\* wg.Wait() of DownloadAll, then return results
DownloadAllReturn ==
    /\ pc = "download"
    /\ dlWg = 0
    /\ pc' = "returned"
    /\ callResult' = [returned |-> TRUE, results |-> dlResults]
    /\ UNCHANGED <<outsideDownload, downloadVars>>

NextDownload ==
    \/ \E a \in ApiIds : FindConfigsToDownload(a)
    \/ \E a \in ApiIds : \E v \in 1 .. MaxValues : DownloadAndUnmarshalConfig(a, v)
    \/ \E a \in ApiIds : \E v \in 1 .. MaxValues : PersistConfig(a, v)
    \/ \E a \in ApiIds : StoreResults(a)
    \/ DownloadAllReturn

SpecDownload == InitDownload /\ [][NextDownload]_vars

-----------------------------------------------------------------------------
(* keepMatches applied to every committed map and every list of unique      *)
(* matches, those that break the invariant of RunIndexRuleAll included      *)

\* Committed maps: one-to-one maps from source indices to target indices.
CommittedMaps ==
    UNION {{m \in [D -> TgtIdx] : \A a, b \in D : a # b => m[a] # m[b]} :
              D \in SUBSET SrcIdx}

\* Bound of the model: length of the list of unique matches of a tier.
MaxUnique == 2

UniquePairs == {CompareResult(l, r, 1) : l \in SrcIdx, r \in TgtIdx}

UniqueMatchLists == UNION {[1 .. n -> UniquePairs] : n \in 0 .. MaxUnique}

InitKeep ==
    /\ matchedEntities \in CommittedMaps
    /\ uniqueMatchEntities \in UniqueMatchLists
    /\ pc = "keep"
    /\ rawSource = [i \in SrcIdx |-> <<0, 0, 0>>]
    /\ rawTarget = [j \in TgtIdx |-> <<0, 0, 0>>]
    /\ firstSeenTms = [j \in TgtIdx |-> 1]
    /\ prevMatches = EmptyMap
    /\ baseRuleList = <<>>
    /\ selfMatch = FALSE
    /\ tierI = 1
    /\ remSource = <<>>
    /\ remTarget = <<>>
    /\ curSource = <<>>
    /\ curTarget = <<>>
    /\ remainingResults = <<>>
    /\ maxMatchValue = 0
    /\ lastRuleType = NoRuleType
    /\ errorLog = {}
    /\ flavour = "none"
    /\ output = EmptyOutput
    /\ RuleLoopIdle
    /\ ComponentsIdle

\* matchedEntities = keepMatches(matchedEntities, uniqueMatchEntities)
KeepMatches ==
    /\ pc = "keep"
    /\ \E kept \in {keepMatches(matchedEntities, uniqueMatchEntities)} :
          /\ matchedEntities' = kept.matched
          /\ errorLog' = errorLog \cup
                (IF kept.found THEN {"multiple exact matches"} ELSE {})
    /\ pc' = "kept"
    /\ UNCHANGED <<inputs, tierI, remSource, remTarget, curSource, curTarget,
                   remainingResults, uniqueMatchEntities, maxMatchValue, lastRuleType,
                   flavour, output, ruleLoop, components>>

NextKeep == KeepMatches

SpecKeep == InitKeep /\ [][NextKeep]_vars

-----------------------------------------------------------------------------
(* The loop over the rules of one tier in RunIndexRuleAll: pkg/match/index_rules.go *)

MaxRules == 2

RuleWeights == {1, 2}

\* A sorted index with no entry, or with one entry of one record.
SortedIndexes == {<<>>, <<[indexValue |-> 1, matchedIds |-> <<0>>]>>}

\* What genSortedItemsIndex returns for the two sides and what compareIndexes
\* answers, for one rule.
RuleRuns ==
    [indexRule : {IndexRule(1, w) : w \in RuleWeights},
     sortedIndexSource : SortedIndexes,
     sortedIndexTarget : SortedIndexes,
     needsPostProcessing : BOOLEAN]

InitMax ==
    /\ ruleRuns \in UNION {[1 .. n -> RuleRuns] : n \in 0 .. MaxRules}
    /\ ruleI = 1
    /\ maxMatchValue = 0
    /\ pc = "rule"
    /\ rawSource = [i \in SrcIdx |-> <<0, 0, 0>>]
    /\ rawTarget = [j \in TgtIdx |-> <<0, 0, 0>>]
    /\ firstSeenTms = [j \in TgtIdx |-> 1]
    /\ prevMatches = EmptyMap
    /\ baseRuleList = <<>>
    /\ selfMatch = FALSE
    /\ tierI = 1
    /\ remSource = <<>>
    /\ remTarget = <<>>
    /\ curSource = <<>>
    /\ curTarget = <<>>
    /\ remainingResults = <<>>
    /\ matchedEntities = EmptyMap
    /\ uniqueMatchEntities = <<>>
    /\ lastRuleType = NoRuleType
    /\ errorLog = {}
    /\ flavour = "none"
    /\ output = EmptyOutput
    /\ ComponentsIdle

\* One iteration of the loop over indexRuleType.IndexRules
RunIndexRule ==
    /\ pc = "rule"
    /\ ruleI <= Len(ruleRuns)
    /\ maxMatchValue' =
           IF countsTowardsMax(ruleRuns[ruleI].needsPostProcessing,
                               ruleRuns[ruleI].sortedIndexSource,
                               ruleRuns[ruleI].sortedIndexTarget)
           THEN maxMatchValue + ruleRuns[ruleI].indexRule.WeightValue
           ELSE maxMatchValue
    /\ ruleI' = ruleI + 1
    /\ UNCHANGED <<inputs, pc, tierI, remSource, remTarget, curSource, curTarget,
                   remainingResults, matchedEntities, uniqueMatchEntities, lastRuleType,
                   errorLog, flavour, output, ruleRuns, components>>

\* The loop is over: resultListPtr.MergeRemainingWeightType comes next.
RulesDone ==
    /\ pc = "rule"
    /\ ruleI > Len(ruleRuns)
    /\ pc' = "merge"
    /\ UNCHANGED <<inputs, tierI, remSource, remTarget, curSource, curTarget,
                   remainingResults, matchedEntities, uniqueMatchEntities, maxMatchValue,
                   lastRuleType, errorLog, flavour, output, ruleLoop, components>>

NextMax ==
    \/ RunIndexRule
    \/ RulesDone

SpecMax == InitMax /\ [][NextMax]_vars

TypeOK ==
    /\ pc \in {"run", "done", "rules", "active", "sorted", "wait", "returned", "call",
               "keep", "kept", "deploy", "download", "rule", "merge"}
    /\ flavour \in {"none", "entities", "configs"}
    /\ tierI \in 1 .. (Len(ruleTypes) + 1)

-----------------------------------------------------------------------------
(* Vocabulary of the properties *)

TiersDone == tierI > Len(ruleTypes)

Done(f) == pc = "done" /\ flavour = f

\* External ids of the sources and of the targets of the committed matches
CurrentIds == {SrcId(s) : s \in DOMAIN matchedEntities}

CurrentTargets == {TgtId(matchedEntities[s]) : s \in DOMAIN matchedEntities}

\* Leftover candidates of a source record
LeftoverOf(s) == {k \in DOMAIN remainingResults : remainingResults[k].LeftId = s}

LeftoverTargets(s) == {remainingResults[k].RightId : k \in LeftoverOf(s)}

\* Targets of the heaviest leftover candidates of a source record
TiedTargets(s) ==
    {remainingResults[k].RightId :
        k \in {k \in LeftoverOf(s) :
                 \A j \in LeftoverOf(s) : remainingResults[j].Weight <= remainingResults[k].Weight}}

Tied(s) == Cardinality(TiedTargets(s)) >= 2

InMatches(s) == SrcId(s) \in DOMAIN output.Matches

InMultiMatched(s) == SrcId(s) \in DOMAIN output.MultiMatched

InUnMatched(s) == SrcId(s) \in Range(output.UnMatched)

\* No rule of any tier gives the source a key that a target has.
NoCandidate(s) ==
    \A t \in TgtIdx, r \in RuleIds : rawSource[s][r] = 0 \/ rawSource[s][r] # rawTarget[t][r]

\* Keys of the rules of the heaviest active tier
TopRuleKeys == {ruleTypes[1].IndexRules[k].Key : k \in DOMAIN ruleTypes[1].IndexRules}

SameTopKeys(a, b) == \A r \in TopRuleKeys : a[r] # 0 /\ a[r] = b[r]

SharesTopKey(a, b) == \E r \in TopRuleKeys : a[r] # 0 /\ a[r] = b[r]

\* s and t have identical keys for all rules of the heaviest active tier and
\* neither has another candidate in that tier.
IdenticalAlone(s, t) ==
    /\ SameTopKeys(rawSource[s], rawTarget[t])
    /\ \A t2 \in TgtIdx \ {t} : ~SharesTopKey(rawSource[s], rawTarget[t2])
    /\ \A s2 \in SrcIdx \ {s} : ~SharesTopKey(rawSource[s2], rawTarget[t])

-----------------------------------------------------------------------------
(* Properties of the match engine *)

Cex_C3 ==
    lastRuleType.SplitMatch =>
        \A k \in DOMAIN uniqueMatchEntities :
            uniqueMatchEntities[k].Weight >= maxMatchValue

\* C6 as stated: two records with identical keys for all rules of the
\* heaviest active tier and no competing candidate are committed at that tier.
Cex_C6 ==
    tierI >= 2 =>
        \A s \in SrcIdx, t \in TgtIdx :
            IdenticalAlone(s, t) =>
                s \in DOMAIN matchedEntities /\ matchedEntities[s] = t

\* C6, amended: when the heaviest active tier is an is-seed tier, two records
\* with identical keys for all its rules and no competing candidate are
\* committed at that tier, and the payload has the pair in Matches and the
\* source neither in MultiMatched nor in UnMatched.  A heaviest tier that is
\* not is-seed compares no records and commits nothing.
Thm_C6 ==
    /\ tierI >= 2 /\ ruleTypes[1].IsSeed =>
           \A s \in SrcIdx, t \in TgtIdx :
               IdenticalAlone(s, t) =>
                   s \in DOMAIN matchedEntities /\ matchedEntities[s] = t
    /\ tierI = 2 /\ ~ruleTypes[1].IsSeed => matchedEntities = EmptyMap
    /\ pc = "done" /\ ruleTypes[1].IsSeed =>
           \A s \in SrcIdx, t \in TgtIdx :
               IdenticalAlone(s, t) =>
                   /\ InMatches(s)
                   /\ output.Matches[SrcId(s)] = TgtId(t)
                   /\ ~InMultiMatched(s)
                   /\ ~InUnMatched(s)

\* The payload of a run whose seed tier committed a pair of records with
\* identical keys: the pair is the only match and nothing is multi-matched.
Wit_C6 ==
    /\ pc = "done"
    /\ ruleTypes[1].IsSeed
    /\ \E s \in SrcIdx, t \in TgtIdx :
           /\ IdenticalAlone(s, t)
           /\ output.Matches = MapPut(EmptyMap, SrcId(s), TgtId(t))
           /\ output.MultiMatched = EmptyMap

\* The entities payload computed with every map visited in increasing key order
CanonicalOutput ==
    LET ordB == SortInts(DOMAIN firstSeenCandidates(remainingResults, prevMatches))
        ordF == SortInts(DOMAIN genMultiMatchedMap(remainingResults, prevMatches,
                                                   ordB).matchedByFirstSeen)
    IN genOutputPayload(remainingResults, matchedEntities, prevMatches,
                        remSource, remTarget, curSource, curTarget,
                        ordB, SortInts(DOMAIN matchedIds(matchedEntities)),
                        SortInts(DOMAIN prevMatches), ordF)

TierPrep ==
    PrepareRemainingMatch(TRUE, ruleTypes[tierI].IsSeed, remSource, remTarget,
                          curSource, curTarget, remainingResults)

TierRan ==
    RulesLoop(ruleTypes[tierI].IndexRules, 1, rawSource, rawTarget,
              TierPrep.curSource, TierPrep.curTarget)

TierMerged == MergeRemainingWeightType(TierRan.results, TierPrep.list)

TierSummed ==
    sumMatchWeightValues(TierMerged, ruleTypes[tierI].SplitMatch, TierRan.maxMatchValue)

\* A tier has just run.
TierRuns == pc = "run" /\ tierI' = tierI + 1

AlreadyCommitted ==
    \E k \in DOMAIN uniqueMatchEntities :
        \/ uniqueMatchEntities[k].LeftId \in DOMAIN matchedEntities
        \/ \E j \in 1 .. (k - 1) :
              uniqueMatchEntities[j].LeftId = uniqueMatchEntities[k].LeftId

LeftIds == {remainingResults[k].LeftId : k \in DOMAIN remainingResults}

RightIds == {remainingResults[k].RightId : k \in DOMAIN remainingResults}

Increasing(list) == \A a, b \in DOMAIN list : a < b => list[a] < list[b]

\* C20: the index sets PrepareRemainingMatch selects.  Called by
\* RunIndexRuleAll with (true, IsSeed): for an is-seed tier (both flags) the
\* current sets are the full remaining sets unchanged; for any other tier
\* (keep-seeded only) they are the remaining indices that appear in the
\* carried result list, left ids for the source and right ids for the
\* target.  Called by genOutputPayload with (false, true) (keep-unseeded
\* only): they are the remaining indices that do not appear in the list.
Thm_C20 ==
    [][/\ TierRuns /\ ruleTypes[tierI].IsSeed =>
             /\ TierPrep.curSource = remSource
             /\ TierPrep.curTarget = remTarget
       /\ TierRuns /\ ~ruleTypes[tierI].IsSeed =>
             /\ Range(TierPrep.curSource) = Range(remSource) \cap LeftIds
             /\ Range(TierPrep.curTarget) = Range(remTarget) \cap RightIds
             /\ Increasing(TierPrep.curSource) /\ Increasing(TierPrep.curTarget)
             /\ curSource' = TierPrep.curSource
             /\ curTarget' = TierPrep.curTarget
       /\ pc = "run" /\ pc' = "done" =>
             /\ Range(curSource') = Range(remSource) \ LeftIds
             /\ Range(curTarget') = Range(remTarget) \ RightIds
             /\ Increasing(curSource') /\ Increasing(curTarget')]_vars

\* A tier that is not is-seed has run on some, not all, of the remaining
\* records (those of the carried list), and the payload has then been made
\* from the remaining records outside the list, some but not all of them.
Wit_C20 ==
    /\ pc = "done"
    /\ lastRuleType # NoRuleType
    /\ ~lastRuleType.IsSeed
    /\ curSource # <<>>
    /\ Len(curSource) < Len(remSource)
    /\ Len(curTarget) < Len(remTarget)

\* The rules of the tier that runs next, and whether one of them extracts
\* the same key from the source record s and the target record t.
TierRules == ruleTypes[tierI].IndexRules

KeyMatch(s, t) ==
    \E k \in DOMAIN TierRules :
        /\ rawSource[s][TierRules[k].Key] # 0
        /\ rawSource[s][TierRules[k].Key] = rawTarget[t][TierRules[k].Key]

\* The pairs of records that the rules of the tier compare and pair.
ComparedPairs ==
    {<<TierRan.results[k].LeftId, TierRan.results[k].RightId>> : k \in DOMAIN TierRan.results}

\* C21 as stated: an is-seed tier compares only records that appear in a
\* candidate pair carried over from the tiers before it.
Cex_C21 ==
    [][TierRuns /\ ruleTypes[tierI].IsSeed =>
          \A p \in ComparedPairs : p[1] \in LeftIds /\ p[2] \in RightIds]_vars

\* C21, amended: it is the tier whose is-seed flag is NOT set that compares
\* only the remaining records of the carried-over candidate pairs (and all
\* of those); an is-seed tier compares all the remaining records, in a
\* carried-over pair or not.
Thm_C21 ==
    [][/\ TierRuns /\ ~ruleTypes[tierI].IsSeed =>
             /\ \A p \in ComparedPairs : p[1] \in LeftIds /\ p[2] \in RightIds
             /\ \A s \in Range(remSource) \cap LeftIds, t \in Range(remTarget) \cap RightIds :
                    KeyMatch(s, t) => <<s, t>> \in ComparedPairs
       /\ TierRuns /\ ruleTypes[tierI].IsSeed =>
             \A s \in SrcIdx, t \in TgtIdx :
                 <<s, t>> \in ComparedPairs <=>
                     /\ s \in Range(remSource)
                     /\ t \in Range(remTarget)
                     /\ KeyMatch(s, t)]_vars

\* The first tier is not is-seed and the second is: the first compared
\* nothing and left no candidate pair, and the second has committed a pair
\* of records that no carried-over pair had surfaced.
Wit_C21 ==
    /\ pc = "run"
    /\ tierI = 3
    /\ ~ruleTypes[1].IsSeed
    /\ lastRuleType.IsSeed
    /\ uniqueMatchEntities # <<>>

\* Source and target indices of the pairs committed by the last tier, and
\* of all the pairs of the committed match map.
CommittedLeft(unique) == {unique[k].LeftId : k \in DOMAIN unique}

CommittedRight(unique) == {unique[k].RightId : k \in DOMAIN unique}

MatchedTargets(matched) == {matched[i] : i \in DOMAIN matched}

\* C22: a tier takes out of the source remaining set exactly the source
\* indices of the pairs it commits and out of the target remaining set
\* exactly their target indices, the rest staying in its order; no step ever
\* adds an index to a remaining set; and no index of the committed match map
\* is in a remaining set.
Thm_C22 ==
    [][/\ TierRuns =>
             /\ Range(remSource') = Range(remSource) \ CommittedLeft(uniqueMatchEntities')
             /\ Range(remTarget') = Range(remTarget) \ CommittedRight(uniqueMatchEntities')
             /\ Increasing(remSource') /\ Increasing(remTarget')
             /\ CommittedLeft(uniqueMatchEntities') \subseteq Range(remSource)
             /\ CommittedRight(uniqueMatchEntities') \subseteq Range(remTarget)
       /\ Range(remSource') \subseteq Range(remSource)
       /\ Range(remTarget') \subseteq Range(remTarget)
       /\ DOMAIN matchedEntities' \cap Range(remSource') = {}
       /\ MatchedTargets(matchedEntities') \cap Range(remTarget') = {}]_vars

\* Both tiers have committed a pair: the source remaining set went from two
\* indices to one and then to none, and one target index is left.
Wit_C22 ==
    /\ pc = "run"
    /\ tierI = 3
    /\ Len(uniqueMatchEntities) = 1
    /\ Cardinality(DOMAIN matchedEntities) = 2
    /\ remSource = <<>>
    /\ Len(remTarget) = 1

\* The pairs of a result list, and the sum of the weights of the entries of
\* the list that have the pair of source l and target r.
PairsOf(list) == {<<list[k].LeftId, list[k].RightId>> : k \in DOMAIN list}

RECURSIVE WeightSum(_, _, _)
WeightSum(list, l, r) ==
    IF list = <<>> THEN 0
    ELSE (IF Head(list).LeftId = l /\ Head(list).RightId = r THEN Head(list).Weight ELSE 0)
            + WeightSum(Tail(list), l, r)

\* What sumMatchWeightValues makes of the list before: one entry per pair at
\* most, each with the sum of the weights the pair had, no pair made up, and
\* without split-match no pair dropped.
SummedFrom(before, after, splitMatch) ==
    /\ \A a, b \in DOMAIN after : a # b => ~areIdsEqual(after[a], after[b])
    /\ \A k \in DOMAIN after :
           after[k].Weight = WeightSum(before, after[k].LeftId, after[k].RightId)
    /\ PairsOf(after) \subseteq PairsOf(before)
    /\ ~splitMatch => PairsOf(after) = PairsOf(before)

TierOwn == sumMatchWeightValues(TierRan.results, FALSE, 0)

LargestWeight(list) ==
    IF list = <<>> THEN 0
    ELSE CHOOSE w \in {list[k].Weight : k \in DOMAIN list} :
             \A k \in DOMAIN list : list[k].Weight <= w

CountOf(list, c) == Cardinality({k \in DOMAIN list : list[k] = c})

\* C24: MergeRemainingWeightType adds, to the weight of every candidate
\* carried over from the previous tiers, the largest summed weight of the
\* candidates of the tier's own rules: the merged list is made of the
\* tier's own summed candidates and of the carried-over candidates so
\* raised; every raised candidate is strictly heavier than every candidate
\* of the tier's own rules, and once the merged list is summed every
\* carried-over pair has a weight strictly greater than every pair that
\* only the rules of the tier produced.
Thm_C24 ==
    [][TierRuns =>
          /\ Len(TierMerged) = Len(TierOwn) + Len(TierPrep.list)
          /\ \A k \in DOMAIN TierMerged :
                 CountOf(TierMerged, TierMerged[k]) =
                     CountOf(TierOwn, TierMerged[k])
                     + CountOf(TierPrep.list,
                               [TierMerged[k] EXCEPT
                                   !.Weight = @ - LargestWeight(TierOwn)])
          /\ \A c \in DOMAIN TierPrep.list, o \in DOMAIN TierOwn :
                 TierPrep.list[c].Weight + LargestWeight(TierOwn) > TierOwn[o].Weight
          /\ \A c \in DOMAIN TierSummed, o \in DOMAIN TierSummed :
                 (/\ <<TierSummed[c].LeftId, TierSummed[c].RightId>>
                         \in PairsOf(TierPrep.list)
                  /\ <<TierSummed[o].LeftId, TierSummed[o].RightId>>
                         \notin PairsOf(TierPrep.list))
                    => TierSummed[c].Weight > TierSummed[o].Weight]_vars

\* The second tier has committed a pair of weight 1 that only its rule
\* produced, and has left two tied pairs carried over from the first tier,
\* whose weight 3 it has raised to 4.
Wit_C24 ==
    /\ pc = "run"
    /\ tierI = 3
    /\ \E k \in DOMAIN uniqueMatchEntities : uniqueMatchEntities[k].Weight = 1
    /\ \E j \in DOMAIN remainingResults : remainingResults[j].Weight = 4

\* The candidate pairs of the tier with their summed weights, before the
\* split-match test of the tier is applied to them.
TierCandidates == sumMatchWeightValues(TierMerged, FALSE, 0)

\* C25: a candidate pair of a split-match tier whose summed weight is below
\* the max match value of the tier is carried forward: it is in the leftover
\* list handed to the next tier and its two records are still in the
\* remaining sets.
Cex_C25 ==
    [][(TierRuns /\ ruleTypes[tierI].SplitMatch) =>
          \A k \in DOMAIN TierCandidates :
              TierCandidates[k].Weight < TierRan.maxMatchValue =>
                  /\ <<TierCandidates[k].LeftId, TierCandidates[k].RightId>>
                         \in PairsOf(remainingResults')
                  /\ TierCandidates[k].LeftId \in Range(remSource')
                  /\ TierCandidates[k].RightId \in Range(remTarget')]_vars

-----------------------------------------------------------------------------
(* Properties of the loop over the rules of a tier *)

\* A rule for which no post-processing is needed and whose sorted index has
\* an entry on at least one side.
Counts(run) ==
    /\ ~run.needsPostProcessing
    /\ run.sortedIndexSource # <<>> \/ run.sortedIndexTarget # <<>>

RECURSIVE WeightOfCounting(_)
WeightOfCounting(runs) ==
    IF runs = <<>> THEN 0
    ELSE (IF Counts(Head(runs)) THEN Head(runs).indexRule.WeightValue ELSE 0)
            + WeightOfCounting(Tail(runs))

\* C26: the max match value of a tier is the sum of the weights of exactly
\* the rules for which no post-processing is needed and whose sorted index
\* is not empty on at least one side: after any number of rules of the loop
\* it is that sum over the rules that have run, and so at the end over all
\* the rules of the tier; a rule with both indexes empty, or that needs
\* post-processing, adds nothing.
Thm_C26 ==
    /\ pc \in {"rule", "merge"} =>
           maxMatchValue = WeightOfCounting(SubSeq(ruleRuns, 1, ruleI - 1))
    /\ pc = "merge" => maxMatchValue = WeightOfCounting(ruleRuns)

\* The loop is over for a tier of two rules: the first, of weight 2, has an
\* entry on the target side only and counts; the second, of weight 1, has
\* entries on both sides but needs post-processing and adds nothing.
Wit_C26 ==
    /\ pc = "merge"
    /\ Len(ruleRuns) = 2
    /\ ruleRuns[1].indexRule.WeightValue = 2
    /\ ~ruleRuns[1].needsPostProcessing
    /\ ruleRuns[1].sortedIndexSource = <<>>
    /\ ruleRuns[1].sortedIndexTarget # <<>>
    /\ ruleRuns[2].needsPostProcessing
    /\ ruleRuns[2].sortedIndexSource # <<>>
    /\ ruleRuns[2].sortedIndexTarget # <<>>
    /\ maxMatchValue = 2

-----------------------------------------------------------------------------
(* Properties of the rule list *)

\* C12: the tiers of the sorted active list, which RunIndexRuleAll processes
\* front to back, are in descending tier-weight order, and tiers of equal
\* tier weight are in their original configuration order (the Key of an
\* active tier is its position in the configuration).
Cex_C12 ==
    pc = "sorted" =>
        \A i, j \in DOMAIN activeList :
            i < j =>
                \/ activeList[i].WeightValue > activeList[j].WeightValue
                \/ /\ activeList[i].WeightValue = activeList[j].WeightValue
                   /\ activeList[i].Key < activeList[j].Key

\* The rules of the configured tier at position k (from 0) that stay active.
KeptRules(k) ==
    {r \in Range(baseRuleList[k + 1].IndexRules) : ~(r.SelfMatchDisabled /\ selfMatch)}

ActiveKeys == {activeList[i].Key : i \in DOMAIN activeList}

\* C13: the active list holds, in configuration order, one tier for each
\* configured tier that keeps a rule, with the flags and the weight of the
\* configured tier and exactly its rules that are not (self-match-disabled
\* while self-match mode is on), in their configured order; a tier left with
\* no rule is omitted; with self-match mode off every rule of every tier is
\* kept.
Thm_C13 ==
    pc = "active" =>
        /\ \A i, j \in DOMAIN activeList : i < j => activeList[i].Key < activeList[j].Key
        /\ ActiveKeys = {k \in 0 .. (Len(baseRuleList) - 1) : KeptRules(k) # {}}
        /\ \A i \in DOMAIN activeList :
              \E conf \in {baseRuleList[activeList[i].Key + 1]} :
                 /\ activeList[i].IsSeed = conf.IsSeed
                 /\ activeList[i].SplitMatch = conf.SplitMatch
                 /\ activeList[i].WeightValue = conf.WeightValue
                 /\ Range(activeList[i].IndexRules) = KeptRules(activeList[i].Key)
                 /\ \A a, b \in DOMAIN activeList[i].IndexRules :
                       a < b => activeList[i].IndexRules[a].Key < activeList[i].IndexRules[b].Key
        /\ ~selfMatch =>
              /\ Len(activeList) = Len(baseRuleList)
              /\ \A i \in DOMAIN activeList :
                    activeList[i].IndexRules = baseRuleList[i].IndexRules

\* Self-match mode on: a tier lost all its rules and is omitted, another tier
\* lost one of its two rules and is kept.
Wit_C13 ==
    /\ pc = "active"
    /\ selfMatch
    /\ Len(activeList) < Len(baseRuleList)
    /\ \E i \in DOMAIN activeList :
          Len(activeList[i].IndexRules) < Len(baseRuleList[activeList[i].Key + 1].IndexRules)

-----------------------------------------------------------------------------
(* Properties of MatchConfigs *)

ErrTypes == {errs[i].type : i \in DOMAIN errs}

\* C14: when MatchConfigs has returned, every worker has run to its end; the
\* worker of each type without a failing call has written the output of its
\* type, whatever failed for the other types; each failure is in the shared
\* error list exactly once; and the call returns an error that aggregates
\* the list exactly when some worker failed.
Thm_C14 ==
    pc = "returned" =>
        /\ \A configsType \in CfgTypes : workers[configsType] = "done"
        /\ \A configsType \in CfgTypes :
              faults[configsType] = "none" =>
                  {DictFile(configsType), CacheFile(configsType)} \subseteq fsFiles
        /\ ErrTypes = {configsType \in CfgTypes : faults[configsType] # "none"}
        /\ Len(errs) = Cardinality(ErrTypes)
        /\ callResult.err = IF ErrTypes = {} THEN <<>> ELSE PrintAndFormatErrors(errs)

\* MatchConfigs has returned an error: the worker of one type failed and the
\* worker of another type wrote its output.
Wit_C14 ==
    /\ pc = "returned"
    /\ callResult.err # <<>>
    /\ \E failedType, otherType \in CfgTypes :
          /\ faults[failedType] # "none"
          /\ faults[otherType] = "none"
          /\ {DictFile(otherType), CacheFile(otherType)} \subseteq fsFiles

FilesOf(configsType) == {f \in fsFiles : f.type = configsType}

\* C15: a type whose worker has ended has either its complete output (the
\* match file and the archive) and no error, or an error and no output at
\* all: when writeMatches returned an error, no file of the type is written.
Cex_C15 ==
    \A configsType \in CfgTypes :
        workers[configsType] = "done" =>
            \/ /\ configsType \notin ErrTypes
               /\ FilesOf(configsType) = {DictFile(configsType), CacheFile(configsType)}
            \/ /\ configsType \in ErrTypes
               /\ FilesOf(configsType) = {}

\* The sums of the per-type counts over the types 1 .. n.
RECURSIVE SumSourceCounts(_)
SumSourceCounts(n) == IF n = 0 THEN 0 ELSE SourceCountOf(n) + SumSourceCounts(n - 1)

RECURSIVE SumTargetCounts(_)
SumTargetCounts(n) == IF n = 0 THEN 0 ELSE TargetCountOf(n) + SumTargetCounts(n - 1)

\* C30: MatchConfigs returns only when every worker has finished, whatever
\* the interleaving of the workers.  When no worker failed, the returned
\* source and target counts are the sums of the counts of the types and the
\* returned stats are the header followed by exactly one row per type of
\* configPerTypeTarget; when a worker failed, the returned stats are empty
\* and both counts are zero.
Thm_C30 ==
    pc = "returned" =>
        /\ \A configsType \in CfgTypes : workers[configsType] = "done"
        /\ (\A configsType \in CfgTypes : faults[configsType] = "none") =>
               /\ callResult.configsSourceCount = SumSourceCounts(NCfgTypes)
               /\ callResult.configsTargetCount = SumTargetCounts(NCfgTypes)
               /\ Len(callResult.stats) = NCfgTypes + 1
               /\ callResult.stats[1] = StatsHeader
               /\ \A configsType \in CfgTypes :
                      Cardinality({k \in 2 .. Len(callResult.stats) :
                                      callResult.stats[k] = configsType}) = 1
        /\ (\E configsType \in CfgTypes : faults[configsType] # "none") =>
               /\ callResult.stats = <<>>
               /\ callResult.configsSourceCount = 0
               /\ callResult.configsTargetCount = 0

\* MatchConfigs has returned without error and the worker of the last type
\* was the first to add its row and its counts.
Wit_C30 ==
    /\ pc = "returned"
    /\ callResult.err = <<>>
    /\ Len(callResult.stats) = NCfgTypes + 1
    /\ callResult.stats[2] = NCfgTypes
    /\ callResult.configsSourceCount = SumSourceCounts(NCfgTypes)

-----------------------------------------------------------------------------
(* Properties of readMatchesPrev *)

\* The previous result cannot be read: no directory is configured, the
\* check of the directory fails, or the file is missing or unreadable.
PrevReadFails ==
    \/ matchParameters.PrevResultDir = ""
    \/ prevFs.existsErr
    \/ prevFs.file \in {"missing", "unreadable"}

\* C16 (as stated): every failure to read the previous result gives an empty
\* previous result without an error, and an error is returned only for a
\* file that is present but empty.
Cex_C16 ==
    pc = "returned" =>
        /\ PrevReadFails =>
              callResult.err = "none" /\ callResult.prev = EmptyMatchOutputType
        /\ callResult.err # "none" => ~PrevReadFails /\ prevFs.file = "empty"

\* C16 (amended): every failure to read the previous result gives an empty
\* previous result without an error; a file that was read returns an error
\* exactly when it is empty or is not the JSON of a match output, and
\* otherwise its content is the previous result.
Thm_C16 ==
    pc = "returned" =>
        /\ PrevReadFails =>
              callResult.err = "none" /\ callResult.prev = EmptyMatchOutputType
        /\ callResult.err # "none" <=>
              ~PrevReadFails /\ prevFs.file \in {"empty", "malformed"}
        /\ callResult.err # "none" => callResult.prev = EmptyMatchOutputType
        /\ ~PrevReadFails /\ prevFs.file = "valid" =>
              callResult.prev.Matches = prevFs.Matches

\* The file is read and is not the JSON of a match output: the call has
\* returned the error of json.Unmarshal.
Wit_C16 ==
    /\ pc = "returned"
    /\ ~PrevReadFails
    /\ prevFs.file = "malformed"
    /\ callResult.err = "unmarshal"

-----------------------------------------------------------------------------
(* Properties of DeployConfigs *)

\* Positions of the configs that are not marked Skip, and of those among
\* them whose deployment returns errors.
ToDeploy == {i \in DOMAIN sortedConfigs : ~sortedConfigs[i].Skip}

Failing == {i \in ToDeploy : sortedConfigs[i].errs > 0}

FirstFailing == CHOOSE i \in Failing : \A j \in Failing : i <= j

\* The errors of the failing configs from position i on, in order.
RECURSIVE ErrorsFrom(_)
ErrorsFrom(i) ==
    IF i > Len(sortedConfigs) THEN <<>>
    ELSE (IF i \in Failing THEN deploymentErrors(i, sortedConfigs[i]) ELSE <<>>)
             \o ErrorsFrom(i + 1)

\* C18: the configs are handed to the deployment in their order; when a
\* deployment returns errors and neither continue-on-error nor dry-run is
\* set, DeployConfigs has returned exactly the errors of that config (none
\* was seen before) and has attempted no config after it; with
\* continue-on-error (or dry-run) set, the loop has reached every config
\* (a config marked Skip is registered as skipped, every other config is
\* handed to the deployment) and the errors of all failing configs are
\* returned, in order.
Thm_C18 ==
    /\ \A a, b \in DOMAIN attempted : a < b => attempted[a] < attempted[b]
    /\ pc = "returned" =>
          IF deployOptions.continueOnError \/ deployOptions.dryRun
          THEN /\ Range(attempted) = ToDeploy
               /\ {e.config : e \in entityMap} \cup Failing = DOMAIN sortedConfigs
               /\ callResult.errors = ErrorsFrom(1)
          ELSE IF Failing = {}
          THEN /\ Range(attempted) = ToDeploy
               /\ callResult.errors = <<>>
          ELSE /\ Range(attempted) = {i \in ToDeploy : i <= FirstFailing}
               /\ callResult.errors =
                      deploymentErrors(FirstFailing, sortedConfigs[FirstFailing])

\* Neither option is set: DeployConfigs has returned at a failing config
\* that is followed by a config it would have deployed.
Wit_C18 ==
    /\ pc = "returned"
    /\ ~deployOptions.continueOnError
    /\ ~deployOptions.dryRun
    /\ Failing # {}
    /\ \E i \in ToDeploy : i > FirstFailing /\ i \notin Range(attempted)
    /\ Len(callResult.errors) = sortedConfigs[FirstFailing].errs

-----------------------------------------------------------------------------
(* Properties of DownloadAll *)

\* The configs of an API that were listed, not skipped before the download,
\* fetched, parsed and accepted for persisting.
Downloadable(a) ==
    IF dlEnv[a].listErr THEN {}
    ELSE {v \in DOMAIN dlEnv[a].values : dlEnv[a].values[v] = "ok"}

\* C19: when DownloadAll has returned, under every interleaving of the
\* goroutines, the result has an entry for an API exactly when at least one
\* of its configs was listed, not skipped, fetched, parsed and accepted, and
\* the entry holds exactly those configs, each once, whatever the listing and
\* the configs of the other APIs did.
Thm_C19 ==
    pc = "returned" =>
        /\ \A a \in ApiIds : apiPc[a] = "done"
        /\ DOMAIN callResult.results = {a \in ApiIds : Downloadable(a) # {}}
        /\ \A a \in DOMAIN callResult.results :
              /\ Range(callResult.results[a]) = Downloadable(a)
              /\ Len(callResult.results[a]) = Cardinality(Downloadable(a))

\* DownloadAll has returned the entry of one API while the listing of
\* another failed, or all configs of another were lost to a fetch error, a
\* malformed response or a filter.
Wit_C19 ==
    /\ pc = "returned"
    /\ \E a, b \in ApiIds :
          /\ a \in DOMAIN callResult.results
          /\ b \notin DOMAIN callResult.results
          /\ \/ dlEnv[b].listErr
             \/ \E v \in DOMAIN dlEnv[b].values :
                   dlEnv[b].values[v] \in {"fetchError", "malformed", "notPersisted"}
          /\ \E v \in DOMAIN dlEnv[a].values : dlEnv[a].values[v] # "ok"

-----------------------------------------------------------------------------
(* Properties of the output payload *)

\* C2: in the payload of genOutputPayload, of the entities and of the
\* configs, every source id is in exactly one of the keys of Matches, the
\* keys of MultiMatched and UnMatched.
Cex_C2 ==
    pc = "done" =>
        \A s \in SrcIdx :
            /\ InMatches(s) \/ InMultiMatched(s) \/ InUnMatched(s)
            /\ ~(InMatches(s) /\ InMultiMatched(s))
            /\ ~(InMatches(s) /\ InUnMatched(s))
            /\ ~(InMultiMatched(s) /\ InUnMatched(s))

Thm_C8 ==
    Done("entities") =>
        /\ \A a, b \in DOMAIN output.Matches :
               a # b => output.Matches[a] # output.Matches[b]
        /\ \A s \in DOMAIN matchedEntities :
               InMatches(s) /\ output.Matches[SrcId(s)] = TgtId(matchedEntities[s])
        /\ \A a \in (DOMAIN prevMatches) \ CurrentIds :
               a \in DOMAIN output.Matches => output.Matches[a] = prevMatches[a]

\* The previous matches hold another target for a source matched by the
\* current run, and an honored match of another source.
Wit_C8 ==
    /\ Done("entities")
    /\ \E a \in CurrentIds \cap DOMAIN prevMatches :
           prevMatches[a] # output.Matches[a]
    /\ \E b \in (DOMAIN prevMatches) \ CurrentIds :
           b \in DOMAIN output.Matches /\ output.Matches[b] = prevMatches[b]

\* C9: a previous match of a source that the current run did not match is in
\* the final Matches exactly when its target is not the target of a unique
\* match of the current run; a source matched by the current run keeps the
\* target of the current run.
Thm_C9 ==
    Done("entities") =>
        \A a \in DOMAIN prevMatches :
            /\ a \notin CurrentIds =>
                   ((a \in DOMAIN output.Matches /\ output.Matches[a] = prevMatches[a])
                        <=> prevMatches[a] \notin CurrentTargets)
            /\ a \in CurrentIds =>
                   \E s \in DOMAIN matchedEntities :
                       /\ SrcId(s) = a
                       /\ output.Matches[a] = TgtId(matchedEntities[s])

\* A previous match is dropped: its target is claimed by a unique match of
\* the current run.
Wit_C9 ==
    /\ Done("entities")
    /\ \E a \in (DOMAIN prevMatches) \ CurrentIds :
           /\ prevMatches[a] \in CurrentTargets
           /\ a \notin DOMAIN output.Matches

\* A previous match of the source is in the final Matches.
Honored(s) ==
    /\ s \notin DOMAIN matchedEntities
    /\ SrcId(s) \in DOMAIN prevMatches
    /\ InMatches(s)
    /\ output.Matches[SrcId(s)] = prevMatches[SrcId(s)]

\* The source is in neither the current unique matches nor the honored
\* previous matches and has leftover candidates.
Eligible(s) ==
    /\ s \notin DOMAIN matchedEntities
    /\ ~Honored(s)
    /\ LeftoverTargets(s) # {}

\* Leftover targets of the source with the most recent first-seen timestamp
MostRecent(s) ==
    {t \in LeftoverTargets(s) :
        \A u \in LeftoverTargets(s) : firstSeenTms[u] <= firstSeenTms[t]}

\* The target is held by a current unique match or an honored previous match.
Claimed(t) ==
    \/ TgtId(t) \in CurrentTargets
    \/ \E a \in SrcIdx : Honored(a) /\ prevMatches[SrcId(a)] = TgtId(t)

Competes(s, s2) ==
    /\ s2 # s
    /\ Eligible(s2)
    /\ MostRecent(s2) \cap MostRecent(s) # {}

\* C10, with the one-to-one rule of the output granted: a source in neither
\* the current unique matches nor the honored previous matches, with leftover
\* candidates, is matched to its leftover target of the most recent first-seen
\* timestamp when no other such source has the same choice and the target is
\* free; sources with the same single choice are all left out of Matches.
Cex_C10 ==
    Done("entities") =>
        \A s \in SrcIdx :
            Eligible(s) =>
                /\ ((\A s2 \in SrcIdx : ~Competes(s, s2))
                        /\ (\A t \in MostRecent(s) : ~Claimed(t))) =>
                       /\ InMatches(s)
                       /\ \E t \in MostRecent(s) : output.Matches[SrcId(s)] = TgtId(t)
                /\ (\E s2 \in SrcIdx :
                        /\ Competes(s, s2)
                        /\ Cardinality(MostRecent(s)) = 1
                        /\ MostRecent(s2) = MostRecent(s)) => ~InMatches(s)

====
